---- MODULE Spec2Model ----
(***************************************************************************)
(* The room relay of recipe-chat: one RoomDurableObject (one room) with    *)
(* its socket set, its single-flight `generating` flag, the onMessage      *)
(* handler and the SSE parsing loop of streamAssistantReply.               *)
(*                                                                         *)
(* A Durable Object runs JavaScript on one thread: a handler runs without  *)
(* interruption from one `await` on external I/O to the next.  Every       *)
(* action below is one such uninterrupted segment; the awaits of the code  *)
(* (fetch, resp.text, reader.read) are the places where a task waits and   *)
(* other events of the room are handled.                                   *)
(***************************************************************************)
EXTENDS Integers, Sequences, FiniteSets, TLC

\* ------------------------------------------------------------------ bounds
MaxConns == 2      \* websockets ever accepted by the room
MaxMsgs == 2       \* inbound payloads handled by onMessage
MaxCloses == 1     \* sockets that close
MaxStreamMsgs == 1 \* inbound payloads in the runs that vary the upstream stream
MaxJoins == 2      \* join events handled by onMessage

Conns == 1..MaxConns

VARIABLES
    sockets,     \* this.sockets: the connections registered in the room
    generating,  \* this.generating
    ready,       \* per connection: "none" (not yet accepted), "open", "closed"
                 \* (close event pending), "gone" (close event dispatched)
    tasks,       \* one record per user_message handled by onMessage
    uuid,        \* number of crypto.randomUUID() values drawn
    inbox,       \* per connection: the payloads its socket was sent, in order
    log,         \* every emission of the room, in order (history)
    nmsg,        \* onMessage invocations so far
    escaped,     \* an exception left onMessage uncaught
    menu,        \* the response bodies the upstream may send in this run
    quota,       \* the inbound payloads the clients send in this run
    http,        \* the last request to the room's fetch and the status it got
    joins,       \* join events handled by onMessage
    recipe,      \* the request the recipe endpoint is handling
    world,       \* the rooms of the namespace, by object id
    hook,        \* a client's useRoomSocket: its state, its sockets, its calls
    app          \* a client's App: its recipe lists and its step tracker

\* what lies outside the room object under study
aside == <<joins, recipe, world, hook, app>>

vars == <<sockets, generating, ready, tasks, uuid, inbox, log, nmsg, escaped, menu, quota,
          http, aside>>

\* --------------------------------------------------------------- wire events
\* ServerMsg.  `status` carries the resp.status that an upstream error message
\* embeds (0 when the message embeds none); ts (Date.now()) is not modelled.
Ev(type, role, id, text, status) ==
    [type |-> type, role |-> role, id |-> id, text |-> text, status |-> status]

UserAdded(id, text) == Ev("message_added", "user", id, text, 0)
AssistantAdded(aid) == Ev("message_added", "assistant", aid, "", 0)
BusyError == Ev("error", "-", "-", "Assistant is busy; try again in a moment.", 0)
InvalidJsonError == Ev("error", "-", "-", "Invalid JSON", 0)
DoneEvent(aid) == Ev("assistant_done", "-", aid, "", 0)

DeltaEventWrongId(aid, text) == Ev("assistant_delta", "-", "a_0", text, 0)
DeltaEvent(aid, text) == Ev("assistant_delta", "-", aid, text, 0)

\* `OpenAI error ${resp.status}: ${text}`
UpstreamErrorNoStatus(status, text) == Ev("error", "-", "-", text, 0)
UpstreamError(status, text) == Ev("error", "-", "-", text, status)

\* e?.message of a rejected fetch or reader.read()
TransportErrorEvent == Ev("error", "-", "-", "network error", 0)

\* ------------------------------------------------- the upstream's byte stream
\* What the model API writes: blocks of lines.  A line is a delta carrying
\* content c (with or without blanks around its payload), a delta without
\* content, a truncated payload, a comment, a bare prefix, or the sentinel.
Frag(c) == [k |-> "frag", c |-> c]
FragSp(c) == [k |-> "fragsp", c |-> c]
Role == [k |-> "role", c |-> ""]
Bad == [k |-> "bad", c |-> ""]
Comment == [k |-> "comment", c |-> ""]
Blank == [k |-> "blank", c |-> ""]
Done == [k |-> "done", c |-> ""]

\* The text of a line, as a sequence of characters.  The characters the
\* parser tells apart are kept apart: "NL" is \n, "SP" a blank, "data:" the
\* five-character prefix, "[DONE]" the sentinel payload; the JSON payload
\* {"choices":[{"delta":{"content":c}}]} is the two characters "{" and c (c
\* standing for the rest of the object, which carries the content), so that
\* a chunk can end inside it.
LineText(l) ==
    CASE l.k = "frag" -> <<"data:", "{", l.c>>
      [] l.k = "fragsp" -> <<"data:", "SP", "{", l.c, "SP">>
      [] l.k = "role" -> <<"data:", "{", "role">>
      [] l.k = "bad" -> <<"data:", "{">>
      [] l.k = "comment" -> <<":ping">>
      [] l.k = "blank" -> <<"data:", "SP">>
      [] l.k = "done" -> <<"data:", "SP", "[DONE]">>

RECURSIVE JoinLines(_)
JoinLines(lines) ==
    IF Len(lines) = 0 THEN <<>>
    ELSE IF Len(lines) = 1 THEN LineText(lines[1])
    ELSE LineText(lines[1]) \o <<"NL">> \o JoinLines(Tail(lines))

\* blocks: a sequence of blocks, each a sequence of lines; every block but
\* possibly the last is followed by a blank line.
RECURSIVE Encode(_, _)
Encode(blocks, term) ==
    IF Len(blocks) = 0 THEN <<>>
    ELSE IF Len(blocks) = 1
         THEN JoinLines(blocks[1]) \o (IF term THEN <<"NL", "NL">> ELSE <<>>)
         ELSE JoinLines(blocks[1]) \o <<"NL", "NL">> \o Encode(Tail(blocks), term)

\* The response bodies the upstream may send.
Streams == <<
    \* one fragment, closed by the sentinel
    [blocks |-> << <<Frag("Pre")>>, <<Done>> >>,
     term |-> TRUE],
    \* no sentinel, and the transport ends inside the last block
    [blocks |-> << <<Frag("Pre")>>, <<Frag("heat ")>> >>,
     term |-> FALSE],
    \* the stream of the spec's example, closed by the sentinel
    [blocks |-> << <<Frag("Pre")>>, <<FragSp("heat ")>>, <<Frag("oven.")>>, <<Done>> >>,
     term |-> TRUE],
    \* no sentinel; a role-only delta, an empty fragment, a comment, garbage
    [blocks |-> << <<Role, Frag("")>>, <<Comment, Bad, Blank, Frag("Pre")>>, <<Frag("heat ")>> >>,
     term |-> TRUE],
    \* data after the sentinel: in its block and in a later block
    [blocks |-> << <<Frag("Pre"), Done, Frag("heat ")>>, <<Frag("oven.")>> >>,
     term |-> TRUE],
    \* two fragments in closed blocks; the transport ends without a sentinel
    [blocks |-> << <<Frag("Pre")>>, <<Frag("heat ")>> >>,
     term |-> TRUE]
>>

StreamText(s) == Encode(Streams[s].blocks, Streams[s].term)

\* ------------------------------------------------------- the parsing loop
\* String.prototype.split on a separator of n consecutive "NL"
RECURSIVE SplitNL(_, _)
SplitNL(s, n) ==
    LET hits == {i \in 1..(Len(s) - n + 1) : \A j \in 0..(n - 1) : s[i + j] = "NL"}
    IN IF hits = {} THEN <<s>>
       ELSE LET i == CHOOSE h \in hits : \A g \in hits : h <= g
            IN <<SubSeq(s, 1, i - 1)>> \o SplitNL(SubSeq(s, i + n, Len(s)), n)

\* String.prototype.trim
RECURSIVE Trim(_)
Trim(s) ==
    IF Len(s) = 0 THEN s
    ELSE IF s[1] = "SP" THEN Trim(Tail(s))
    ELSE IF s[Len(s)] = "SP" THEN Trim(SubSeq(s, 1, Len(s) - 1))
    ELSE s

StartsWithData(line) == Len(line) > 0 /\ line[1] = "data:"

IsSentinelNever(data) == FALSE
\* if (data === "[DONE]") return
IsSentinel(data) == data = <<"[DONE]">>

\* JSON.parse(data) succeeds
Strip(s) == SelectSeq(s, LAMBDA ch : ch # "SP")
JsonParses(data) ==
    LET d == Strip(data) IN Len(d) = 2 /\ d[1] = "{" /\ d[2] # "{"

\* json?.choices?.[0]?.delta?.content
DeltaOf(data) == LET c == Strip(data)[2] IN IF c = "role" THEN "undefined" ELSE c

\* if (delta)
TruthyAlways(delta) == TRUE
Truthy(delta) == delta \notin {"", "undefined"}

\* The inner loop over the lines of one part: the fragments to broadcast, and
\* whether the sentinel made the function return.
RECURSIVE ScanLines(_, _)

\* catch { /* ignore parse errors */ }: the loop goes on with the next line
AfterParseErrorStops(rest, out) == [out |-> out, ret |-> FALSE]
AfterParseError(rest, out) == ScanLines(rest, out)

ScanLines(lines, out) ==
    IF Len(lines) = 0 THEN [out |-> out, ret |-> FALSE]
    ELSE LET line == Head(lines)
             data == Trim(Tail(line))
         IN IF ~StartsWithData(line) THEN ScanLines(Tail(lines), out)
            ELSE IF Len(data) = 0 THEN ScanLines(Tail(lines), out)
            ELSE IF IsSentinel(data) THEN [out |-> out, ret |-> TRUE]
            ELSE IF ~JsonParses(data) THEN AfterParseError(Tail(lines), out)
            ELSE IF Truthy(DeltaOf(data))
                 THEN ScanLines(Tail(lines), Append(out, DeltaOf(data)))
                 ELSE ScanLines(Tail(lines), out)

\* The outer loop over the complete parts of the buffer.
RECURSIVE ScanParts(_, _)
ScanParts(parts, out) ==
    IF Len(parts) = 0 THEN [out |-> out, ret |-> FALSE]
    ELSE LET r == ScanLines(SplitNL(Head(parts), 1), out)
         IN IF r.ret THEN r ELSE ScanParts(Tail(parts), r.out)

\* One turn of the while loop after a read that delivered `chunk`:
\* the new buffer, the fragments broadcast, and whether the function returned.
RetainNothing(parts) == <<>>
Retain(parts) == parts[Len(parts)]
OnChunk(buffer, chunk) ==
    LET parts == SplitNL(buffer \o chunk, 2)
        r == ScanParts(SubSeq(parts, 1, Len(parts) - 1), <<>>)
    IN [buffer |-> Retain(parts), out |-> r.out, ret |-> r.ret]

\* ------------------------------------------------------------ room state
\* ws.send inside broadcast's try/catch: a closed socket's send throws and is
\* ignored; an open socket queues the payload.
DeliverSkipsAnnouncement(inb, socks, rdy, ev) ==
    [c \in Conns |->
        IF c \in socks /\ rdy[c] = "open" /\ ~(ev.type = "message_added" /\ ev.role = "assistant")
        THEN Append(inb[c], ev) ELSE inb[c]]
DeliverOutOfOrder(inb, socks, rdy, ev) ==
    [c \in Conns |->
        IF c \in socks /\ rdy[c] = "open"
        THEN IF c = MaxConns THEN <<ev>> \o inb[c] ELSE Append(inb[c], ev)
        ELSE inb[c]]
DeliverUntilFailure(inb, socks, rdy, ev) ==
    [c \in Conns |->
        IF c \in socks /\ rdy[c] = "open" /\ \A d \in socks : d < c => rdy[d] = "open"
        THEN Append(inb[c], ev) ELSE inb[c]]
Deliver(inb, socks, rdy, ev) ==
    [c \in Conns |-> IF c \in socks /\ rdy[c] = "open" THEN Append(inb[c], ev) ELSE inb[c]]

\* broadcast, called once per event of evs, in order
RECURSIVE Broadcast(_, _, _, _)
Broadcast(inb, socks, rdy, evs) ==
    IF Len(evs) = 0 THEN inb
    ELSE Broadcast(Deliver(inb, socks, rdy, Head(evs)), socks, rdy, Tail(evs))

\* history: what task t emitted, and the membership set it was emitted to
Logged(t, socks, evs) == [i \in 1..Len(evs) |-> [ev |-> evs[i], task |-> t, to |-> socks]]

Emit(t, evs) ==
    /\ inbox' = Broadcast(inbox, sockets, ready, evs)
    /\ log' = log \o Logged(t, sockets, evs)

\* `a_${crypto.randomUUID()}`: the n-th UUID drawn differs from all before it
MintConstantId(n) == "a_1"
MintAssistantId(n) == "a_" \o ToString(n)

\* if (this.generating)
BusyNever(flag) == FALSE
Busy(flag) == flag

\* the `return` that ends the busy branch: the handler goes on only if not busy
ProceedsAlways(flag) == TRUE
Proceeds(flag) == ~Busy(flag)

\* finally { this.generating = false }
FinallyKeeps(flag) == flag
Finally(flag) == FALSE

\* What the handler of a user_message broadcasts before its first await.
SyncEventsAddedLast(flag, id, text, aid) ==
    (IF Busy(flag) THEN <<BusyError>> ELSE <<>>)
    \o (IF Proceeds(flag) THEN <<AssistantAdded(aid)>> ELSE <<>>)
    \o <<UserAdded(id, text)>>
SyncEvents(flag, id, text, aid) ==
    <<UserAdded(id, text)>>
    \o (IF Busy(flag) THEN <<BusyError>> ELSE <<>>)
    \o (IF Proceeds(flag) THEN <<AssistantAdded(aid)>> ELSE <<>>)

\* What onMessage broadcasts when streamAssistantReply resolves: the line
\* after the await.
WhenResolvedSilent(aid) == <<>>
WhenResolved(aid) == <<DoneEvent(aid)>>

\* What onMessage broadcasts when streamAssistantReply rejects with the error
\* whose event is err: the catch block.
WhenRejectedAlsoDone(aid, err) == <<err, DoneEvent(aid)>>
WhenRejected(aid, err) == <<err>>

\* ========================================================= useRoomSocket
\* A WebSocket the hook created: its readyState, the didUnmount of the effect
\* run that created it, the events it has fired, the joins sent on it.
NewSocket == [state |-> "connecting", didUnmount |-> FALSE, fired |-> {}, joins |-> 0]

\* The hook after its first render with no room: conversation [], status
\* idle, socketRef null.  `room` is the roomId prop ("null" for null), ref
\* the index in socks of socketRef.current (0 for null), live the socket of
\* the connection effect's latest run (0 if that run returned early), sent
\* the user_message payloads given to ws.send, errors the messages onError
\* was called with, ret what the last sendUserMessage returned, nrecv the
\* message events handled and last the payload of the latest one, calls the
\* sendUserMessage calls and arg the text of the latest one, cleared whether
\* clearConversation was ever called.
Malformed == [type |-> "malformed", role |-> "-", id |-> "-", text |-> "", status |-> 0]
NoPayload == [type |-> "none", role |-> "-", id |-> "-", text |-> "", status |-> 0]
NoHook ==
    [room |-> "null", conversation |-> <<>>, status |-> "idle", ref |-> 0, live |-> 0,
     socks |-> <<>>, sent |-> <<>>, errors |-> <<>>, uuid |-> 0, ret |-> "-", nrecv |-> 0,
     last |-> NoPayload, calls |-> 0, arg |-> <<>>, cleared |-> FALSE]

\* The connection effect's body for the room h.room: lines 154-160
ConnectionEffect(h) ==
    IF h.room = "null" THEN h
    ELSE [h EXCEPT !.status = "connecting",
                   !.socks = Append(@, NewSocket),
                   !.ref = Len(h.socks) + 1,
                   !.live = Len(h.socks) + 1]

\* the hook after the effects of its first render with roomId = room
Mounted(room) == ConnectionEffect([NoHook EXCEPT !.room = room])

\* ============================================================== App
\* The App after its first render: no recipes, nothing selected, step 0,
\* empty history and favorites.  `reset` says that the effect that resets
\* the step index after a change of the selected recipe has yet to run,
\* saving is the recipe the pending save timer captured, made the number of
\* makeId calls, nops the operations so far and op the latest one.
NoOp == [name |-> "none", recipeId |-> "null", delta |-> 0]
NewApp ==
    [recipes |-> <<>>, selectedRecipeId |-> "null", currentStepIndex |-> 0,
     history |-> <<>>, favorites |-> <<>>, reset |-> FALSE,
     isGenerating |-> FALSE, isSaving |-> FALSE, saving |-> "null",
     made |-> 0, nops |-> 0, op |-> NoOp]

\* ====================================================== GET /ws/:roomId
\* The namespace of room objects behind the router.  Each object is a room
\* reduced to its membership set and its flag; a visitor is a client that
\* asks for a room by name.
MaxVisitors == 3
MaxRoomMsgs == 3
Visitors == 1..MaxVisitors
RoomNames == {"kitchen", "pantry"}

\* c.env.ROOMS.idFromName(roomId): the id is a function of the name, and
\* different names give different ids
IdFromNameConstant(name) == "id:kitchen"
IdFromName(name) == "id:" \o name
ObjectIds == {IdFromName(name) : name \in RoomNames}

\* new RoomDurableObject(state, env).  `aid` is the assistantId of the
\* generation in progress and `starter` the visitor whose message began it
\* (history).
NewRoom == [sockets |-> {}, generating |-> FALSE, aid |-> "-", starter |-> 0]

\* route: the roomId each visitor asked for; home: the object whose fetch
\* accepted its socket; inbox: what each visitor's socket was sent, with the
\* visitor whose message led to the event and the starter of the generation
\* that was in progress when the message was handled.
NewWorld ==
    [route |-> [v \in Visitors |-> "-"],
     home  |-> [v \in Visitors |-> "-"],
     rooms |-> [o \in ObjectIds |-> NewRoom],
     inbox |-> [v \in Visitors |-> <<>>],
     sent  |-> 0,
     uuid  |-> 0]

\* ================================================= POST /api/recipes
\* PromptSchema and RecipePlanSchema
MinPrompt == 8
MaxPrompt == 400
MaxTags == 5
MinIngredients == 3
MinSteps == 3

\* Request bodies: a body that is not JSON, a JSON value without a prompt
\* key, a prompt that is not a string, a prompt string of `len` UTF-16 units.
Body(kind, len) == [kind |-> kind, len |-> len]
PromptLens == {0, MinPrompt - 1, MinPrompt, MinPrompt + 1, MaxPrompt, MaxPrompt + 1}
Bodies ==
    {Body("notjson", 0), Body("noprompt", 0), Body("wrongtype", MinPrompt)}
        \cup {Body("prompt", n) : n \in PromptLens}

\* await c.req.json().catch(() => ({}))
ReqJson(body) == IF body.kind = "notjson" THEN Body("noprompt", 0) ELSE body

\* PromptSchema.safeParse(...).success
PromptValidAnyLength(value) == value.kind = "prompt"
PromptValid(value) ==
    /\ value.kind = "prompt"
    /\ value.len >= MinPrompt
    /\ value.len <= MaxPrompt

\* payload?.choices?.[0]?.message?.content: absent or empty, a string that is
\* not JSON, or a string holding a JSON value.  A JSON value is described by
\* what RecipePlanSchema looks at: `typed` says that it is an object whose
\* id, title, summary and readyIn are strings, whose tags are strings and
\* whose ingredients and steps match IngredientSchema and StepSchema; the
\* three numbers are the lengths of its arrays.
Content(kind, typed, tags, ingredients, steps) ==
    [kind |-> kind, typed |-> typed, tags |-> tags, ingredients |-> ingredients, steps |-> steps]
NoContent == Content("none", FALSE, 0, 0, 0)
NotJsonContent == Content("text", FALSE, 0, 0, 0)
Plans ==
    {Content("json", typed, tags, ingredients, steps) :
        typed \in BOOLEAN,
        tags \in {0, MaxTags, MaxTags + 1},
        ingredients \in {MinIngredients - 1, MinIngredients},
        steps \in {MinSteps - 1, MinSteps, MinSteps + 1}}
Contents == {NoContent, NotJsonContent} \cup Plans

\* What fetch resolves with: response.ok, whether the body is JSON
\* (response.json() resolves), and the content the payload holds.
Upstream(ok, json, content) == [ok |-> ok, json |-> json, content |-> content]
NoUpstream == Upstream(FALSE, FALSE, NoContent)
Upstreams ==
    {Upstream(FALSE, FALSE, NoContent), Upstream(TRUE, FALSE, NoContent)}
        \cup {Upstream(TRUE, TRUE, content) : content \in Contents}

\* RecipePlanSchema.safeParse(planJson).success
PlanValidAnyLength(plan) == plan.typed
PlanValid(plan) ==
    /\ plan.typed
    /\ plan.tags <= MaxTags
    /\ plan.ingredients >= MinIngredients
    /\ plan.steps >= MinSteps

\* The handler's position, the request body, the upstream requests issued,
\* whether fetch resolved and with what, and the answer: its status, and
\* whether it holds a recipe, an error, or is the framework's answer to an
\* exception thrown out of the handler.
Handler(pc, body, calls, got, resp, status, out) ==
    [pc |-> pc, body |-> body, calls |-> calls, got |-> got, resp |-> resp,
     status |-> status, out |-> out]
RecipeIdle == Handler("idle", Body("noprompt", 0), 0, FALSE, NoUpstream, 0, "-")

Answer(status, out) == [recipe EXCEPT !.pc = "done", !.status = status, !.out = out]

Outside == <<sockets, generating, ready, tasks, uuid, inbox, log, nmsg, escaped, menu, quota,
             http, joins, world, hook, app>>

\* lines 103-129
RecipeValidate ==
    /\ recipe.pc = "request"
    /\ recipe' = IF ~PromptValid(ReqJson(recipe.body))
                 THEN Answer(400, "validation")
                 ELSE [recipe EXCEPT !.pc = "fetch", !.calls = @ + 1]
    /\ UNCHANGED Outside

\* fetch rejects: nothing catches it
RecipeFetchRejects ==
    /\ recipe.pc = "fetch"
    /\ recipe' = Answer(500, "thrown")
    /\ UNCHANGED Outside

\* fetch resolves: lines 131-132 and 136 up to their await
RecipeFetchResolves(resp) ==
    /\ recipe.pc = "fetch"
    /\ recipe' = [recipe EXCEPT !.got = TRUE, !.resp = resp,
                                !.pc = IF ~resp.ok THEN "errtext" ELSE "json"]
    /\ UNCHANGED Outside

\* response.text() resolves, or rejects and is caught: line 133
RecipeErrorText ==
    /\ recipe.pc = "errtext"
    /\ recipe' = Answer(502, "upstream")
    /\ UNCHANGED Outside

\* lines 137-154
Respond(content) ==
    IF content.kind = "none" THEN Answer(500, "nocontent")
    ELSE IF content.kind # "json" THEN Answer(500, "notjson")
    ELSE IF ~PlanValid(content) THEN Answer(502, "schema")
    ELSE Answer(200, "recipe")

\* response.json() resolves, or rejects out of the handler
RecipeBody ==
    /\ recipe.pc = "json"
    /\ recipe' = IF ~recipe.resp.json THEN Answer(500, "thrown") ELSE Respond(recipe.resp.content)
    /\ UNCHANGED Outside

InitRoom ==
    /\ sockets = {}
    /\ generating = FALSE
    /\ ready = [c \in Conns |-> "none"]
    /\ tasks = <<>>
    /\ uuid = 0
    /\ inbox = [c \in Conns |-> <<>>]
    /\ log = <<>>
    /\ nmsg = 0
    /\ escaped = FALSE
    /\ http = [upgrade |-> "-", status |-> 0]
    /\ joins = 0

\* nothing happens outside the room
Elsewhere == recipe = RecipeIdle /\ world = NewWorld /\ hook = Mounted("null") /\ app = NewApp

\* The room under connection churn and concurrent messages.
Init == InitRoom /\ Elsewhere /\ menu = {1, 2} /\ quota = MaxMsgs

\* The room under connection churn and concurrent messages, with a response
\* body of two fragments.
InitOrder == InitRoom /\ Elsewhere /\ menu = {6} /\ quota = MaxMsgs

\* The room with one inbound payload and every response body.
InitStream == InitRoom /\ Elsewhere /\ menu = 1..Len(Streams) /\ quota = MaxStreamMsgs

\* ------------------------------------------------------------- connections
\* fetch with Upgrade: websocket: accept the server socket and register it.
\* The sockets are named in the order the room accepts them.
\* if (request.headers.get("Upgrade") !== "websocket") return 426
IsUpgradeAlways(header) == TRUE
IsUpgrade(header) == header = "websocket"

\* fetch: a request whose Upgrade header is `header`; c is the socket the
\* room would accept for it.
RoomFetch(c, header) ==
    IF ~IsUpgrade(header)
    THEN /\ http' = [upgrade |-> header, status |-> 426]
         /\ UNCHANGED <<sockets, generating, ready, tasks, uuid, inbox, log, nmsg, escaped,
                        menu, quota, aside>>
    ELSE /\ ready[c] = "none"
         /\ \A d \in 1..(c - 1) : ready[d] # "none"
         /\ ready' = [ready EXCEPT ![c] = "open"]
         /\ sockets' = sockets \cup {c}
         /\ http' = [upgrade |-> header, status |-> 101]
         /\ UNCHANGED <<generating, tasks, uuid, inbox, log, nmsg, escaped, menu, quota, aside>>

Connect(c) == RoomFetch(c, "websocket")

\* a request without the Upgrade header ("null") or with another protocol
PlainRequest(c, header) == header # "websocket" /\ RoomFetch(c, header)

\* the socket of c has closed, whether or not its close event was dispatched
HasClosed(c) == ready[c] \in {"closed", "gone"}

\* The socket closes (the peer went away); its close event is not yet handled.
SocketCloses(c) ==
    /\ ready[c] = "open"
    /\ Cardinality({d \in Conns : HasClosed(d)}) < MaxCloses
    /\ ready' = [ready EXCEPT ![c] = "closed"]
    /\ UNCHANGED <<sockets, generating, tasks, uuid, inbox, log, nmsg, escaped, menu, quota, http, aside>>

\* Set.prototype.delete
UnregisterNothing(socks, c) == socks
Unregister(socks, c) == socks \ {c}

OnCloseCancels(c) ==
    /\ ready[c] = "closed"
    /\ c \in sockets
    /\ sockets' = sockets \ {c}
    /\ ready' = [ready EXCEPT ![c] = "gone"]
    /\ generating' = FALSE
    /\ tasks' = [t \in 1..Len(tasks) |->
                    IF tasks[t].pc \in {"fetch", "errtext", "read"}
                    THEN [tasks[t] EXCEPT !.pc = "done", !.exit = "cancelled"]
                    ELSE tasks[t]]
    /\ UNCHANGED <<uuid, inbox, log, nmsg, escaped, menu, quota, http, aside>>
\* The close listener: this.sockets.delete(server).
OnClose(c) ==
    /\ ready[c] = "closed"
    /\ c \in sockets
    /\ sockets' = Unregister(sockets, c)
    /\ ready' = [ready EXCEPT ![c] = "gone"]
    /\ UNCHANGED <<generating, tasks, uuid, inbox, log, nmsg, escaped, menu, quota, http, aside>>

\* --------------------------------------------------------------- onMessage
Receives(c) == c \in sockets /\ ready[c] = "open"
CanReceive(c) == Receives(c) /\ nmsg < quota

\* ws.send(payload) on the sender's socket, in the catch of JSON.parse
ReplyToRoom(inb, c, ev) == Deliver(inb, sockets, ready, ev)
ReplyTo(inb, c, ev) == [inb EXCEPT ![c] = Append(@, ev)]

\* JSON.parse(raw) throws: the error goes to the sender alone.
OnInvalidJson(c) ==
    /\ CanReceive(c)
    /\ nmsg' = nmsg + 1
    /\ inbox' = ReplyTo(inbox, c, InvalidJsonError)
    /\ log' = Append(log, [ev |-> InvalidJsonError, task |-> 0, to |-> {c}])
    /\ UNCHANGED <<sockets, generating, ready, tasks, uuid, escaped, menu, quota, http, aside>>

\* JSON.parse(raw) throws for a payload that arrived before the sender's
\* socket closed and is handled before its close event: the ws.send of the
\* reply is outside any try, so if it throws the exception leaves onMessage;
\* whether the send on such a socket throws or is dropped is the runtime's.
OnInvalidJsonClosed(c, throws) ==
    /\ c \in sockets
    /\ ready[c] = "closed"
    /\ nmsg < quota
    /\ nmsg' = nmsg + 1
    /\ escaped' = (escaped \/ throws)
    /\ UNCHANGED <<sockets, generating, ready, tasks, uuid, inbox, log, menu, quota, http, aside>>

\* raw is the JSON text null: msg.type throws a TypeError outside any try.
OnNull(c) ==
    /\ CanReceive(c)
    /\ nmsg' = nmsg + 1
    /\ escaped' = TRUE
    /\ UNCHANGED <<sockets, generating, ready, tasks, uuid, inbox, log, menu, quota, http, aside>>

\* a join, or a JSON value whose type is neither join nor user_message
OnJoinOrOther(c) ==
    /\ Receives(c)
    /\ UNCHANGED vars

\* What the join branch sends to the connection that joined: nothing
\* ("Optional: send history/presence here").
JoinReplyHistory(inb, c) == [inb EXCEPT ![c] = @ \o [i \in 1..Len(log) |-> log[i].ev]]
JoinReply(inb, c) == inb

\* {type: "join", roomId, displayName?}: the handler returns at once.
OnJoin(c) ==
    /\ Receives(c)
    /\ joins < MaxJoins
    /\ joins' = joins + 1
    /\ inbox' = JoinReply(inbox, c)
    /\ UNCHANGED <<sockets, generating, ready, tasks, uuid, log, nmsg, escaped, menu, quota,
                   http, recipe, world, hook, app>>

\* The user_message payloads the clients send.  Identifiers are opaque to the
\* room: the first one ever sent is called u1, the next new one u2, ...; a
\* client may also send one that was sent before.
ClientIds == {"u" \o ToString(n) : n \in 1..(Len(tasks) + 1)}
ClientText(id) == IF id = "u1" THEN "How long for salmon?" ELSE "  "

NewTask(c, id, text, busy, started, aid) ==
    [conn |-> c, id |-> id, text |-> text,
     busy |-> busy,
     pc |-> IF started THEN "fetch" ELSE "rejected",
     aid |-> IF started THEN aid ELSE "-",
     at |-> Len(log) + 1,
     stream |-> 0, pos |-> 0, buffer |-> <<>>, status |-> 0,
     exit |-> "-",
     reqs |-> IF started THEN 1 ELSE 0,
     clears |-> 0]

\* user_message: everything up to the first await (the fetch of
\* streamAssistantReply), or up to the return of the busy branch.
OnUserMessage(c, id, text) ==
    LET aid == MintAssistantId(uuid + 1)
        started == Proceeds(generating)
    IN /\ CanReceive(c)
       /\ nmsg' = nmsg + 1
       /\ Emit(Len(tasks) + 1, SyncEvents(generating, id, text, aid))
       /\ tasks' = Append(tasks, NewTask(c, id, text, Busy(generating), started, aid))
       /\ generating' = IF started THEN TRUE ELSE generating
       /\ uuid' = IF started THEN uuid + 1 ELSE uuid
       /\ UNCHANGED <<sockets, ready, escaped, menu, quota, http, aside>>

\* ------------------------------------------------- streamAssistantReply
\* The task leaves the try: catch or the line after the await broadcasts the
\* terminal event, finally clears the flag.
Settle(t, deltas, terminal, exit) ==
    /\ Emit(t, [i \in 1..Len(deltas) |-> DeltaEvent(tasks[t].aid, deltas[i])] \o terminal)
    /\ generating' = Finally(generating)
    /\ tasks' = [tasks EXCEPT ![t].pc = "done", ![t].exit = exit, ![t].clears = @ + 1]
    /\ UNCHANGED <<sockets, ready, uuid, nmsg, escaped, menu, quota, http, aside>>

\* await fetch(...) rejects
FetchRejects(t) ==
    /\ tasks[t].pc = "fetch"
    /\ Settle(t, <<>>, WhenRejected(tasks[t].aid, TransportErrorEvent), "neterr")

\* if (!resp.ok || !resp.body)
Failed(status, body) == status \notin 200..299 \/ body = 0

\* The responses the upstream may give: a body to stream, a 2xx without a
\* body, an error status.
Responses ==
    {[status |-> 200, body |-> s] : s \in menu}
    \cup {[status |-> 204, body |-> 0], [status |-> 500, body |-> 0]}

\* await fetch(...) resolves with resp
FetchResolves(t, resp) ==
    /\ tasks[t].pc = "fetch"
    /\ tasks' = [tasks EXCEPT
                    ![t].pc = IF Failed(resp.status, resp.body) THEN "errtext" ELSE "read",
                    ![t].status = resp.status,
                    ![t].stream = resp.body]
    /\ UNCHANGED <<sockets, generating, ready, uuid, inbox, log, nmsg, escaped, menu, quota, http, aside>>

\* await resp.text().catch(() => "") resolves; the Error is thrown
ErrorBody(status) == IF status = 500 THEN "quota exceeded" ELSE ""
ResponseFails(t) ==
    /\ tasks[t].pc = "errtext"
    /\ Settle(t, <<>>,
              WhenRejected(tasks[t].aid, UpstreamError(tasks[t].status, ErrorBody(tasks[t].status))),
              IF tasks[t].status \in 200..299 THEN "nobody" ELSE "http")

Remaining(t) == Len(StreamText(tasks[t].stream)) - tasks[t].pos

\* await reader.read() resolves with the next k characters of the body
ReadChunk(t, k) ==
    LET text == StreamText(tasks[t].stream)
        r == OnChunk(tasks[t].buffer, SubSeq(text, tasks[t].pos + 1, tasks[t].pos + k))
    IN /\ tasks[t].pc = "read"
       /\ k \in 1..Remaining(t)
       /\ IF r.ret
          THEN Settle(t, r.out, WhenResolved(tasks[t].aid), "sentinel")
          ELSE /\ Emit(t, [i \in 1..Len(r.out) |-> DeltaEvent(tasks[t].aid, r.out[i])])
               /\ tasks' = [tasks EXCEPT ![t].pos = @ + k, ![t].buffer = r.buffer]
               /\ UNCHANGED <<sockets, generating, ready, uuid, nmsg, escaped, menu, quota, http, aside>>

\* await reader.read() resolves with done
ReadDone(t) ==
    /\ tasks[t].pc = "read"
    /\ Remaining(t) = 0
    /\ Settle(t, <<>>, WhenResolved(tasks[t].aid), "end")

\* await reader.read() rejects
ReadFails(t) ==
    /\ tasks[t].pc = "read"
    /\ Settle(t, <<>>, WhenRejected(tasks[t].aid, TransportErrorEvent), "readerr")

Next ==
    \/ \E c \in Conns : Connect(c)
    \/ \E c \in Conns : SocketCloses(c)
    \/ \E c \in Conns : OnClose(c)
    \/ \E c \in Conns : OnInvalidJson(c)
    \/ \E c \in Conns, throws \in BOOLEAN : OnInvalidJsonClosed(c, throws)
    \/ \E c \in Conns : OnNull(c)
    \/ \E c \in Conns : OnJoinOrOther(c)
    \/ \E c \in Conns, id \in ClientIds : OnUserMessage(c, id, ClientText(id))
    \/ \E t \in 1..Len(tasks) : FetchRejects(t)
    \/ \E t \in 1..Len(tasks), resp \in Responses : FetchResolves(t, resp)
    \/ \E t \in 1..Len(tasks) : ResponseFails(t)
    \/ \E t \in 1..Len(tasks), k \in 1..30 : ReadChunk(t, k)
    \/ \E t \in 1..Len(tasks) : ReadDone(t)
    \/ \E t \in 1..Len(tasks) : ReadFails(t)

Spec == Init /\ [][Next]_vars

SpecStream == InitStream /\ [][Next]_vars

SpecOrder == InitOrder /\ [][Next]_vars

\* The room with one inbound user payload, its join events counted, and
\* requests that ask for no websocket.
InitFrame == InitRoom /\ Elsewhere /\ menu = {1, 2} /\ quota = MaxStreamMsgs

NextFrame ==
    \/ Next
    \/ \E c \in Conns : OnJoin(c)
    \/ \E c \in Conns, header \in {"null", "h2c"} : PlainRequest(c, header)

SpecFrame == InitFrame /\ [][NextFrame]_vars

\* ------------------------------------------- the recipe endpoint's runs
InitRecipe ==
    /\ InitRoom /\ world = NewWorld /\ hook = Mounted("null") /\ app = NewApp
    /\ menu = {} /\ quota = 0
    /\ \E body \in Bodies : recipe = Handler("request", body, 0, FALSE, NoUpstream, 0, "-")

NextRecipe ==
    \/ RecipeValidate
    \/ RecipeFetchRejects
    \/ \E resp \in Upstreams : RecipeFetchResolves(resp)
    \/ RecipeErrorText
    \/ RecipeBody

SpecRecipe == InitRecipe /\ [][NextRecipe]_vars

\* ------------------------------------------------ the namespace's steps
\* c.env.ROOMS.get(id): the stub of the one object with that id
GetRoom(id) == world.rooms[id]

\* broadcast of one object: to the sockets of its own set
RoomBroadcast(inb, socks, evs, by, cause) ==
    [v \in Visitors |->
        IF v \in socks
        THEN inb[v] \o [i \in 1..Len(evs) |-> [ev |-> evs[i], by |-> by, cause |-> cause]]
        ELSE inb[v]]

OutsideWorld == <<sockets, generating, ready, tasks, uuid, inbox, log, nmsg, escaped, menu, quota,
                  http, joins, recipe, hook, app>>

\* GET /ws/:roomId with Upgrade: websocket, forwarded to the object's fetch
RouteTo(v, name) ==
    /\ world.route[v] = "-"
    /\ LET id == IdFromName(name)
       IN world' = [world EXCEPT !.route[v] = name,
                                 !.home[v] = id,
                                 !.rooms[id].sockets = GetRoom(id).sockets \cup {v}]
    /\ UNCHANGED OutsideWorld

\* the visitor's socket closes and its close listener runs
RoomLeave(v) ==
    /\ world.home[v] # "-"
    /\ v \in GetRoom(world.home[v]).sockets
    /\ world' = [world EXCEPT !.rooms[world.home[v]].sockets = @ \ {v}]
    /\ UNCHANGED OutsideWorld

\* onMessage of the visitor's object for a user_message, up to its await
RoomUserMessage(v) ==
    /\ world.home[v] # "-"
    /\ v \in GetRoom(world.home[v]).sockets
    /\ world.sent < MaxRoomMsgs
    /\ LET id == world.home[v]
           room == GetRoom(id)
           aid == MintAssistantId(world.uuid + 1)
           started == Proceeds(room.generating)
       IN world' = [world EXCEPT
               !.inbox = RoomBroadcast(@, room.sockets,
                                       SyncEvents(room.generating, "u1", ClientText("u1"), aid),
                                       v, room.starter),
               !.rooms[id] = IF started
                             THEN [room EXCEPT !.generating = TRUE, !.aid = aid, !.starter = v]
                             ELSE room,
               !.uuid = IF started THEN @ + 1 ELSE @,
               !.sent = @ + 1]
    /\ UNCHANGED OutsideWorld

\* streamAssistantReply of an object settles: done or error, then finally
RoomSessionEnds(id, resolved) ==
    /\ GetRoom(id).generating
    /\ LET room == GetRoom(id)
           evs == IF resolved THEN WhenResolved(room.aid)
                  ELSE WhenRejected(room.aid, TransportErrorEvent)
       IN world' = [world EXCEPT
               !.inbox = RoomBroadcast(@, room.sockets, evs, room.starter, room.starter),
               !.rooms[id] = [room EXCEPT !.generating = Finally(@), !.aid = "-", !.starter = 0]]
    /\ UNCHANGED OutsideWorld

\* --------------------------------------------------- the namespace's runs
InitRooms == InitRoom /\ Elsewhere /\ menu = {} /\ quota = 0

NextRooms ==
    \/ \E v \in Visitors, name \in RoomNames : RouteTo(v, name)
    \/ \E v \in Visitors : RoomLeave(v)
    \/ \E v \in Visitors : RoomUserMessage(v)
    \/ \E id \in ObjectIds, resolved \in BOOLEAN : RoomSessionEnds(id, resolved)

SpecRooms == InitRooms /\ [][NextRooms]_vars

\* ================================================ useRoomSocket's steps
MaxSockets == 2    \* WebSockets one hook creates
MaxEvents == 3     \* message events one hook handles
MaxSends == 2      \* user messages one hook sends
MaxErrors == 2     \* onError calls

OutsideHook == <<sockets, generating, ready, tasks, uuid, inbox, log, nmsg, escaped, menu, quota,
                 http, joins, recipe, world, app>>

\* ChatMessage; the timestamp is not modelled
Entry(id, role, content) == [id |-> id, role |-> role, content |-> content]

\* prev.findIndex((entry) => entry.id === id), with 0 for -1
FindIndex(conv, id) ==
    LET hits == {i \in 1..Len(conv) : conv[i].id = id}
    IN IF hits = {} THEN 0 ELSE CHOOSE i \in hits : \A j \in hits : i <= j

\* message_added: lines 88-105
OnMessageAddedAppends(conv, msg) == Append(conv, Entry(msg.id, msg.role, msg.text))
OnMessageAdded(conv, msg) ==
    LET existingIndex == FindIndex(conv, msg.id)
        payload == Entry(msg.id, msg.role, msg.text)
    IN IF existingIndex > 0 THEN [conv EXCEPT ![existingIndex] = payload]
       ELSE Append(conv, payload)

\* assistant_delta: lines 107-127
OnAssistantDeltaReplaces(conv, msg) ==
    LET idx == FindIndex(conv, msg.id)
    IN IF idx = 0 THEN Append(conv, Entry(msg.id, "assistant", msg.text))
       ELSE [conv EXCEPT ![idx].content = msg.text]
OnAssistantDelta(conv, msg) ==
    LET idx == FindIndex(conv, msg.id)
    IN IF idx = 0 THEN Append(conv, Entry(msg.id, "assistant", msg.text))
       ELSE [conv EXCEPT ![idx].content = @ \o msg.text]

\* onError?.(message)
NotifyTwice(errs, message) == errs \o <<message, message>>
Notify(errs, message) == Append(errs, message)

\* handleServerMessage
HandleServerMessage(h, msg) ==
    IF msg.type = "message_added" THEN [h EXCEPT !.conversation = OnMessageAdded(@, msg)]
    ELSE IF msg.type = "assistant_delta" THEN [h EXCEPT !.conversation = OnAssistantDelta(@, msg)]
    ELSE IF msg.type = "error" THEN [h EXCEPT !.errors = Notify(@, msg.text)]
    ELSE h

\* The server events a socket may deliver, in any order.
EventIds == {"u1", "a_1"}
ServerEvents ==
    {Ev("message_added", role, id, "x", 0) : role \in {"user", "assistant"}, id \in EventIds}
        \cup {DeltaEvent(id, "y") : id \in EventIds}
        \cup {DoneEvent(id) : id \in EventIds}
        \cup {BusyError}

\* A message event is dispatched to an open socket only.
Opened(s) ==
    /\ s \in 1..Len(hook.socks)
    /\ hook.socks[s].state = "open"
Delivers(s) == Opened(s) /\ hook.nrecv < MaxEvents

\* the message listener, for a payload that parses to msg: lines 174-181
OnSocketMessage(s, msg) ==
    /\ Opened(s)
    /\ hook' = [HandleServerMessage(hook, msg) EXCEPT !.nrecv = @ + 1, !.last = msg]
    /\ UNCHANGED OutsideHook

HookMessage(s, msg) ==
    /\ hook.nrecv < MaxEvents
    /\ msg.type = "error" => Len(hook.errors) < MaxErrors
    /\ OnSocketMessage(s, msg)

\* the message listener, for a payload JSON.parse throws on
HookMalformed(s) ==
    /\ Delivers(s)
    /\ hook' = [hook EXCEPT !.nrecv = @ + 1, !.last = Malformed]
    /\ UNCHANGED OutsideHook

\* the open listener: lines 163-172
HookSocketOpens(s) ==
    /\ s \in 1..Len(hook.socks)
    /\ hook.socks[s].state = "connecting"
    /\ hook' = [hook EXCEPT !.status = "ready",
                            !.socks[s].state = "open",
                            !.socks[s].fired = @ \cup {"open"},
                            !.socks[s].joins = @ + 1]
    /\ UNCHANGED OutsideHook

\* the error listener: lines 189-195.  The connection fails, or a close()
\* reached it before it was established; its close event follows.
HookSocketFails(s) ==
    /\ s \in 1..Len(hook.socks)
    /\ hook.socks[s].state \in {"connecting", "open", "closing"}
    /\ "error" \notin hook.socks[s].fired
    /\ Len(hook.errors) < MaxErrors
    /\ LET h == [hook EXCEPT !.socks[s].state = "closing", !.socks[s].fired = @ \cup {"error"}]
       IN hook' = IF h.socks[s].didUnmount THEN h
                  ELSE [h EXCEPT !.status = "error",
                                 !.errors = Notify(@, "Chat connection failed")]
    /\ UNCHANGED OutsideHook

\* the close listener: lines 183-187
HookSocketClosed(s) ==
    /\ s \in 1..Len(hook.socks)
    /\ hook.socks[s].state \in {"open", "closing"}
    /\ LET h == [hook EXCEPT !.socks[s].state = "closed", !.socks[s].fired = @ \cup {"close"}]
       IN hook' = IF h.socks[s].didUnmount THEN h ELSE [h EXCEPT !.status = "idle"]
    /\ UNCHANGED OutsideHook

\* ws.close()
Closing(state) == IF state \in {"connecting", "open"} THEN "closing" ELSE state

\* closeSocket: lines 137-142
CloseSocket(h) ==
    IF h.ref = 0 THEN h
    ELSE [h EXCEPT !.socks[h.ref].state = Closing(@), !.ref = 0]

\* the connection effect's cleanup: lines 197-203
Cleanup(h) ==
    IF h.live = 0 THEN h
    ELSE [h EXCEPT !.socks[h.live].didUnmount = TRUE,
                   !.socks[h.live].state = Closing(@),
                   !.ref = IF @ = h.live THEN 0 ELSE @,
                   !.live = 0]

\* reconnect, and the render it causes: the effect's cleanup, then its body
Reconnect ==
    /\ hook.room # "null" => Len(hook.socks) < MaxSockets
    /\ hook' = ConnectionEffect(Cleanup(CloseSocket(hook)))
    /\ UNCHANGED OutsideHook

\* the render after roomId changed to room: the cleanup, the effect that
\* empties the conversation (lines 149-151), the connection effect's body
RoomChange(room) ==
    /\ room # hook.room
    /\ room # "null" => Len(hook.socks) < MaxSockets
    /\ hook' = ConnectionEffect([Cleanup(hook) EXCEPT !.room = room, !.conversation = <<>>])
    /\ UNCHANGED OutsideHook

\* clearConversation: lines 225-227
ClearConversation ==
    /\ hook' = [hook EXCEPT !.conversation = <<>>, !.cleared = TRUE]
    /\ UNCHANGED OutsideHook

\* The texts the user types: nothing, a blank, a word, a word between blanks.
Texts == {<<>>, <<"SP">>, <<"h", "i">>, <<"SP", "h", "i", "SP">>}

\* !ws || ws.readyState !== WebSocket.OPEN || !trimmed, negated
CanSendAlways(h, trimmed) == TRUE
CanSend(h, trimmed) ==
    /\ h.ref # 0
    /\ h.socks[h.ref].state = "open"
    /\ trimmed # <<>>

\* sendUserMessage: lines 206-223
SendUserMessage(text) ==
    LET trimmed == Trim(text)
    IN /\ Len(hook.sent) < MaxSends
       /\ Len(hook.errors) < MaxErrors
       /\ hook' = IF ~CanSend(hook, trimmed)
                  THEN [hook EXCEPT !.errors = Notify(@, "Chat is offline"), !.ret = "false",
                                    !.calls = @ + 1, !.arg = text]
                  ELSE [hook EXCEPT
                          !.sent = Append(@, [sock |-> hook.ref, type |-> "user_message",
                                              id |-> "u_" \o ToString(hook.uuid + 1),
                                              text |-> trimmed]),
                          !.uuid = @ + 1,
                          !.ret = "true",
                          !.calls = @ + 1, !.arg = text]
       /\ UNCHANGED OutsideHook

\* ------------------------------------------------------- the hook's runs
InitHook ==
    /\ InitRoom /\ recipe = RecipeIdle /\ world = NewWorld /\ app = NewApp
    /\ menu = {} /\ quota = 0
    /\ \E room \in RoomNames \cup {"null"} : hook = Mounted(room)

NextHook ==
    \/ \E s \in 1..MaxSockets : HookSocketOpens(s)
    \/ \E s \in 1..MaxSockets : HookSocketFails(s)
    \/ \E s \in 1..MaxSockets : HookSocketClosed(s)
    \/ \E s \in 1..MaxSockets, msg \in ServerEvents : HookMessage(s, msg)
    \/ \E s \in 1..MaxSockets : HookMalformed(s)
    \/ Reconnect
    \/ \E room \in RoomNames \cup {"null"} : RoomChange(room)
    \/ ClearConversation
    \/ \E text \in Texts : SendUserMessage(text)

SpecHook == InitHook /\ [][NextHook]_vars

\* =========================================================== App's steps
MaxOps == 6        \* operations of one App

OutsideApp == <<sockets, generating, ready, tasks, uuid, inbox, log, nmsg, escaped, menu, quota,
                http, joins, recipe, world>>

\* The recipes the API may answer with: a RecipePlan reduced to its id and
\* the length of its steps (at least MinSteps, by RecipePlanSchema).  The
\* same id may come back with other steps.
Plan(id, steps) == [id |-> id, steps |-> steps]
NoPlan == Plan("null", 0)
Catalog == {Plan("r1", MinSteps), Plan("r1", MinSteps + 1), Plan("r2", MinSteps + 1)}

\* selectedRecipe: lines 76-86
SelectedRecipe(a) ==
    IF Len(a.recipes) = 0 THEN NoPlan
    ELSE IF a.selectedRecipeId = "null" THEN a.recipes[1]
    ELSE LET hits == {i \in 1..Len(a.recipes) : a.recipes[i].id = a.selectedRecipeId}
         IN IF hits = {} THEN a.recipes[1]
            ELSE a.recipes[CHOOSE i \in hits : \A j \in hits : i <= j]

\* prev.filter((entry) => entry.id !== id)
WithoutId(list, id) == SelectSeq(list, LAMBDA entry : entry.id # id)
\* prev.filter((entry) => entry.recipeId !== id)
WithoutRecipe(list, id) == SelectSeq(list, LAMBDA entry : entry.recipeId # id)

\* a ListEntry: its own id (makeId) and the recipe it points to
ListEntry(prefix, n, recipeId) == [id |-> prefix \o "-" \o ToString(n), recipeId |-> recipeId]

\* setHistory((prev) => [newEntry, ...remaining])
TrackKeepsOld(a, recipeId) ==
    [a EXCEPT !.history = <<ListEntry("hist", a.made + 1, recipeId)>> \o @,
              !.made = @ + 1]
Track(a, recipeId) ==
    [a EXCEPT !.history = <<ListEntry("hist", a.made + 1, recipeId)>> \o WithoutRecipe(@, recipeId),
              !.made = @ + 1]

Does(a, name, recipeId, delta) ==
    [a EXCEPT !.nops = @ + 1, !.op = [name |-> name, recipeId |-> recipeId, delta |-> delta]]

\* handlePromptSubmit / a suggestion button: generateRecipeFromPrompt up to
\* its await (lines 156-164)
GenerateStarts ==
    /\ ~app.isGenerating
    /\ app.nops < MaxOps
    /\ app' = Does([app EXCEPT !.isGenerating = TRUE], "generate", "null", 0)
    /\ UNCHANGED <<OutsideApp, hook>>

\* requestRecipePlan resolves with plan: lines 165-188 and the finally
RecipeArrives(plan) ==
    /\ app.isGenerating
    /\ app.nops < MaxOps
    /\ LET a == [app EXCEPT !.recipes = <<plan>> \o WithoutId(@, plan.id),
                            !.selectedRecipeId = plan.id,
                            !.reset = TRUE,
                            !.isGenerating = FALSE]
       IN app' = Does(Track(a, plan.id), "arrive", plan.id, 0)
    /\ UNCHANGED <<OutsideApp, hook>>

\* requestRecipePlan rejects: the catch and the finally (lines 189-195)
GenerationFails ==
    /\ app.isGenerating
    /\ app.nops < MaxOps
    /\ app' = Does([app EXCEPT !.isGenerating = FALSE], "fail", "null", 0)
    /\ UNCHANGED <<OutsideApp, hook>>

\* the effect on [selectedRecipe]: lines 88-94
ResetEffect ==
    /\ app.reset
    /\ app' = [app EXCEPT !.currentStepIndex = 0, !.reset = FALSE]
    /\ UNCHANGED <<OutsideApp, hook>>

\* handleSelectRecipe(recipeId, message, {trackHistory}): lines 224-254
HandleSelectRecipe(recipeId, trackHistory) ==
    /\ app.nops < MaxOps
    /\ LET known == \E i \in 1..Len(app.recipes) : app.recipes[i].id = recipeId
           a == [app EXCEPT !.selectedRecipeId = recipeId]
           b == [a EXCEPT !.reset = @ \/ SelectedRecipe(a) # SelectedRecipe(app)]
       IN app' = IF ~known THEN Does(app, "unavailable", recipeId, 0)
                 ELSE Does(IF trackHistory THEN Track(b, recipeId) ELSE b, "select", recipeId, 0)
    /\ UNCHANGED <<OutsideApp, hook>>

\* the updater of goToStep: lines 347-356
StepToNoCeiling(prev, delta, length) ==
    IF prev + delta < 0 THEN 0 ELSE prev + delta
StepTo(prev, delta, length) ==
    LET next == prev + delta
    IN IF next < 0 THEN 0
       ELSE IF next >= length THEN length - 1
       ELSE next

\* goToStep(delta): lines 343-357
GoToStep(delta) ==
    /\ app.nops < MaxOps
    /\ app' = IF SelectedRecipe(app) = NoPlan THEN Does(app, "step", "null", delta)
              ELSE Does([app EXCEPT !.currentStepIndex =
                                        StepTo(@, delta, SelectedRecipe(app).steps)],
                        "step", SelectedRecipe(app).id, delta)
    /\ UNCHANGED <<OutsideApp, hook>>

\* handleSavePlan up to its timer: lines 293-300.  The button is disabled
\* without a selected recipe and while a save is pending.
SaveClicked ==
    /\ SelectedRecipe(app) # NoPlan
    /\ ~app.isSaving
    /\ app.nops < MaxOps
    /\ app' = Does([app EXCEPT !.isSaving = TRUE, !.saving = SelectedRecipe(app).id],
                   "save", SelectedRecipe(app).id, 0)
    /\ UNCHANGED <<OutsideApp, hook>>

\* setFavorites((prev) => ...): lines 302-320
SaveAgain(list, n, recipeId) == <<ListEntry("fav", n, recipeId)>> \o list
Save(list, n, recipeId) ==
    IF \E i \in 1..Len(list) : list[i].recipeId = recipeId THEN list
    ELSE <<ListEntry("fav", n, recipeId)>> \o list

\* the timer of handleSavePlan fires: lines 300-321
SaveTimerFires ==
    /\ app.isSaving
    /\ LET favorites == Save(app.favorites, app.made + 1, app.saving)
       IN app' = [app EXCEPT !.isSaving = FALSE,
                             !.saving = "null",
                             !.favorites = favorites,
                             !.made = IF favorites = app.favorites THEN @ ELSE @ + 1,
                             !.op = [name |-> "saved", recipeId |-> app.saving, delta |-> 0]]
    /\ UNCHANGED <<OutsideApp, hook>>

\* handleReset: lines 324-330
HandleReset ==
    /\ app.nops < MaxOps
    /\ app' = Does([app EXCEPT !.currentStepIndex = 0], "reset", "null", 0)
    /\ hook' = [hook EXCEPT !.conversation = <<>>, !.cleared = TRUE]
    /\ UNCHANGED OutsideApp

InitApp ==
    /\ InitRoom /\ recipe = RecipeIdle /\ world = NewWorld
    /\ hook = Mounted("kitchen") /\ app = NewApp
    /\ menu = {} /\ quota = 0

NextApp ==
    \/ GenerateStarts
    \/ \E plan \in Catalog : RecipeArrives(plan)
    \/ GenerationFails
    \/ ResetEffect
    \/ \E recipeId \in {"r1", "r2"}, trackHistory \in BOOLEAN :
          HandleSelectRecipe(recipeId, trackHistory)
    \/ \E delta \in {-1, 1} : GoToStep(delta)
    \/ SaveClicked
    \/ SaveTimerFires
    \/ HandleReset

SpecApp == InitApp /\ [][NextApp]_vars

\* ------------------------------------------- a client in the relay's room
\* The hook's first socket is the relay's connection 1: it opens once the
\* relay has accepted it, and it is handed, in order, what the relay sent to
\* that connection.
ViewOpens ==
    /\ ready[1] = "open"
    /\ HookSocketOpens(1)

ViewReceives ==
    /\ hook.nrecv < Len(inbox[1])
    /\ OnSocketMessage(1, inbox[1][hook.nrecv + 1])

InitView ==
    /\ InitRoom /\ recipe = RecipeIdle /\ world = NewWorld /\ app = NewApp
    /\ hook = Mounted("kitchen")
    /\ menu = {2, 6} /\ quota = MaxStreamMsgs

NextView ==
    \/ Next
    \/ ViewOpens
    \/ ViewReceives
    \/ ClearConversation

SpecView == InitView /\ [][NextView]_vars

\* ============================================================ properties
TaskIds == 1..Len(tasks)
Active(t) == tasks[t].pc \in {"fetch", "errtext", "read"}
Started(t) == tasks[t].pc # "rejected"
Ended(t) == tasks[t].pc = "done"

\* the events task t emitted, in emission order
EventsOf(t) ==
    LET sel == SelectSeq(log, LAMBDA e : e.task = t)
    IN [i \in 1..Len(sel) |-> sel[i].ev]
\* the positions of the log at which task t emitted
IndexesOf(t) == {i \in 1..Len(log) : log[i].task = t}
DeltasOf(t) == SelectSeq(EventsOf(t), LAMBDA e : e.type = "assistant_delta")
Count(seq, ev) == Cardinality({i \in 1..Len(seq) : seq[i] = ev})
IsPrefix(a, b) == Len(a) <= Len(b) /\ SubSeq(b, 1, Len(a)) = a

\* C1: single-flight.  At most one generation session (one upstream request)
\* is active in the room at any instant, the flag is set exactly while one is,
\* and sessions never overlap: a session starts only after every earlier
\* session has broadcast its last event.
C1_SingleFlight ==
    /\ Cardinality({t \in TaskIds : Active(t)}) <= 1
    /\ generating <=> (\E t \in TaskIds : Active(t))
    /\ \A t, u \in TaskIds :
          (t < u /\ Started(t) /\ Started(u)) =>
             /\ Ended(t)
             /\ \A i \in IndexesOf(t) : i < tasks[u].at

\* a second user_message arrived from another connection while a session runs
C1_Witness ==
    \E t, u \in TaskIds :
        /\ t < u /\ Active(t) /\ tasks[t].pc = "read" /\ tasks[u].busy
        /\ tasks[u].conn # tasks[t].conn

\* C2: a user_message handled while the flag is true broadcasts the busy
\* error to the room (every registered open socket gets it), issues no
\* upstream request, mints no assistant identifier, and never becomes a
\* session, also after the running session has ended.
C2_BusyRejected ==
    /\ \A u \in TaskIds :
          tasks[u].busy =>
             /\ tasks[u].pc = "rejected"
             /\ tasks[u].aid = "-"
             /\ tasks[u].reqs = 0
             /\ EventsOf(u) = <<UserAdded(tasks[u].id, tasks[u].text), BusyError>>
    /\ uuid = Cardinality({t \in TaskIds : ~tasks[t].busy})
    /\ \A c \in Conns :
          ready[c] = "open" =>
             Count(inbox[c], BusyError)
                = Cardinality({i \in 1..Len(log) : log[i].ev = BusyError /\ c \in log[i].to})

\* the busy message is still rejected after the session it collided with ended
C2_Witness ==
    \E t, u \in TaskIds :
        /\ t < u /\ Ended(t) /\ tasks[u].busy
        /\ \E c \in Conns : c # tasks[u].conn /\ Count(inbox[c], BusyError) = 1

\* C3: a session clears the flag exactly once, when it ends, whatever ends
\* it; a running session has not cleared it and a message rejected as busy
\* never clears it, so the flag stays set while a session runs and is clear
\* when none does.
C3_ReleasedOnce ==
    /\ \A t \in TaskIds :
          /\ Ended(t) => tasks[t].clears = 1
          /\ ~Ended(t) => tasks[t].clears = 0
          /\ Active(t) => generating
    /\ (\A t \in TaskIds : ~Active(t)) => ~generating

\* one session ended by a read error in mid-stream, one by the upstream's status
C3_Witness ==
    \E t, u \in TaskIds :
        /\ tasks[t].exit = "readerr" /\ Len(DeltasOf(t)) > 0
        /\ tasks[u].exit \in {"http", "nobody"}
        /\ ~generating

\* C4: identifier continuity.  Every assistant_delta and assistant_done was
\* emitted by a session whose message_added(role=assistant, text="") was
\* broadcast earlier with the same identifier, and that identifier was new
\* to the room when it was broadcast.
C4_IdentifierContinuity ==
    \A i \in 1..Len(log) :
        log[i].ev.type \in {"assistant_delta", "assistant_done"} =>
            LET t == log[i].task
                a == tasks[t].at + 1
            IN /\ t \in TaskIds
               /\ a < i
               /\ log[a].task = t
               /\ log[a].ev = AssistantAdded(log[i].ev.id)
               /\ \A j \in 1..(a - 1) : log[j].ev.id # log[i].ev.id

\* a second session streams under its own identifier
C4_Witness ==
    \E t, u \in TaskIds :
        /\ t < u /\ tasks[t].exit = "sentinel" /\ Len(DeltasOf(t)) > 0
        /\ Len(DeltasOf(u)) > 0 /\ tasks[u].aid # tasks[t].aid

\* the message_added(role=assistant) entry of the log that introduced id
AnnouncedTo(id) ==
    LET hits == {j \in 1..Len(log) : log[j].ev = AssistantAdded(id)}
    IN IF hits = {} THEN {} ELSE log[CHOOSE j \in hits : \A h \in hits : j <= h].to

Introduced(c, i) ==
    \E j \in 1..(i - 1) :
        inbox[c][j].type = "message_added" /\ inbox[c][j].id = inbox[c][i].id

\* C5 as stated: every assistant_delta or assistant_done a connection
\* receives references an identifier the connection received before in a
\* message_added, also when it was registered during the stream.
C5_Original ==
    \A c \in Conns : \A i \in 1..Len(inbox[c]) :
        inbox[c][i].type \in {"assistant_delta", "assistant_done"} => Introduced(c, i)

\* C5 (amended): every assistant_delta or assistant_done a connection
\* receives references an identifier the connection received before in a
\* message_added, provided the connection was registered when the
\* session's message_added(role=assistant) was broadcast; in the room's own
\* emission order the identifier is always introduced first.
C5_IntroducedIfRegistered ==
    /\ \A c \in Conns : \A i \in 1..Len(inbox[c]) :
          (/\ inbox[c][i].type \in {"assistant_delta", "assistant_done"}
           /\ c \in AnnouncedTo(inbox[c][i].id)) => Introduced(c, i)
    /\ \A i \in 1..Len(log) :
          log[i].ev.type \in {"assistant_delta", "assistant_done"} =>
              \E j \in 1..(i - 1) : log[j].ev = AssistantAdded(log[i].ev.id)

\* one connection saw the session from its start, another joined in mid-stream
C5_Witness ==
    \E c, d \in Conns : \E i \in 1..Len(inbox[c]) : \E k \in 1..Len(inbox[d]) :
        /\ inbox[c][i].type = "assistant_delta" /\ Introduced(c, i)
        /\ c \in AnnouncedTo(inbox[c][i].id)
        /\ inbox[d][k].type = "assistant_done" /\ ~Introduced(d, k)
        /\ d \notin AnnouncedTo(inbox[d][k].id)

\* C6: every user_message first broadcasts message_added(role=user) with the
\* client's id and text, to its sender among the others; the busy error or
\* the message_added(role=assistant) of the same handling comes right after it.
C6_UserAddedFirst ==
    \A t \in TaskIds :
        LET a == tasks[t].at
        IN /\ Len(log) > a
           /\ log[a].task = t /\ log[a + 1].task = t
           /\ log[a].ev = UserAdded(tasks[t].id, tasks[t].text)
           /\ tasks[t].conn \in log[a].to
           /\ Count(inbox[tasks[t].conn], log[a].ev) >= 1
           /\ log[a + 1].ev = IF tasks[t].busy THEN BusyError ELSE AssistantAdded(tasks[t].aid)

\* one message started a session, the next, with another id, was rejected
C6_Witness ==
    \E t, u \in TaskIds :
        /\ Started(t) /\ tasks[u].busy /\ tasks[u].id # tasks[t].id
        /\ Count(inbox[tasks[u].conn], UserAdded(tasks[u].id, tasks[u].text)) = 1

\* ------------------------------------------- the upstream's side of a stream
RECURSIVE Flatten(_)
Flatten(blocks) == IF Len(blocks) = 0 THEN <<>> ELSE Head(blocks) \o Flatten(Tail(blocks))

\* the lines the upstream wrote in blocks it closed with a blank line
ClosedLines(s) ==
    LET b == Streams[s].blocks
    IN Flatten(IF Streams[s].term THEN b ELSE SubSeq(b, 1, Len(b) - 1))

HasSentinel(s) == \E i \in 1..Len(ClosedLines(s)) : ClosedLines(s)[i] = Done

\* the lines written before the sentinel (all of them when there is none)
BeforeSentinel(lines) ==
    LET hits == {i \in 1..Len(lines) : lines[i] = Done}
    IN IF hits = {} THEN lines
       ELSE SubSeq(lines, 1, (CHOOSE i \in hits : \A h \in hits : i <= h) - 1)

\* the non-empty fragments the upstream sent, in the order it sent them
FragmentsOf(lines) ==
    LET sel == SelectSeq(lines, LAMBDA l : l.k \in {"frag", "fragsp"} /\ l.c # "")
    IN [i \in 1..Len(sel) |-> sel[i].c]

Yielded(s) == FragmentsOf(BeforeSentinel(ClosedLines(s)))

\* the number of characters up to the end of the block that holds the sentinel
SentinelEnd(s) ==
    LET b == Streams[s].blocks
        hits == {i \in 1..Len(b) : \E j \in 1..Len(b[i]) : b[i][j] = Done}
    IN Len(Encode(SubSeq(b, 1, CHOOSE i \in hits : \A h \in hits : i <= h), TRUE))

SessionEvents(t, fragments, last) ==
    <<UserAdded(tasks[t].id, tasks[t].text), AssistantAdded(tasks[t].aid)>>
    \o [i \in 1..Len(fragments) |-> DeltaEvent(tasks[t].aid, fragments[i])]
    \o last

\* C7: a session whose stream is a sequence of blank-line-terminated blocks
\* carrying the fragments f1..fn broadcasts message_added(user),
\* message_added(assistant, ""), one assistant_delta per non-empty fragment
\* in upstream order and nothing for an empty one, then one assistant_done;
\* while it streams, the deltas broadcast so far are a prefix of f1..fn.
C7_FragmentOrder ==
    \A t \in TaskIds :
        (tasks[t].stream # 0 /\ Streams[tasks[t].stream].term) =>
            LET F == Yielded(tasks[t].stream)
            IN /\ IsPrefix([i \in 1..Len(DeltasOf(t)) |-> DeltasOf(t)[i].text], F)
               /\ tasks[t].exit \in {"end", "sentinel"} =>
                     EventsOf(t) = SessionEvents(t, F, <<DoneEvent(tasks[t].aid)>>)

\* the stream of the spec's example, and the stream with an empty fragment
C7_Witness ==
    \E t \in TaskIds :
        /\ tasks[t].stream = 3 /\ tasks[t].exit = "sentinel"
        /\ Yielded(3) = <<"Pre", "heat ", "oven.">>
        /\ Len(DeltasOf(t)) = 3

C7_WitnessEmpty ==
    \E t \in TaskIds :
        /\ tasks[t].stream = 4 /\ tasks[t].exit = "end"
        /\ Frag("") \in {ClosedLines(4)[i] : i \in 1..Len(ClosedLines(4))}
        /\ Len(DeltasOf(t)) = 2

\* C8: sentinel termination.  In a stream that carries the sentinel, the
\* session never reads past the block that holds it, broadcasts no delta for
\* a data line behind it (in its block, in later blocks or chunks), and its
\* last event, right after the deltas of the lines before it, is assistant_done.
C8_SentinelStops ==
    \A t \in TaskIds :
        (tasks[t].stream # 0 /\ HasSentinel(tasks[t].stream)) =>
            LET F == FragmentsOf(BeforeSentinel(ClosedLines(tasks[t].stream)))
                D == DeltasOf(t)
            IN /\ Len(D) <= Len(F)
               /\ \A i \in 1..Len(D) : D[i].text = F[i]
               /\ tasks[t].pc = "read" => tasks[t].pos < SentinelEnd(tasks[t].stream)
               /\ tasks[t].exit = "sentinel" =>
                     /\ Len(D) = Len(F)
                     /\ EventsOf(t)[Len(EventsOf(t))] = DoneEvent(tasks[t].aid)
                     /\ EventsOf(t)[Len(EventsOf(t)) - 1].type # "assistant_done"

\* the sentinel was followed by data lines in its block and in a later block
C8_Witness ==
    \E t \in TaskIds :
        /\ tasks[t].stream = 5 /\ tasks[t].exit = "sentinel"
        /\ Len(FragmentsOf(ClosedLines(5))) = 3
        /\ Len(DeltasOf(t)) = 1

\* C9: a session whose response is not 2xx or has no body broadcasts no
\* assistant_delta and no assistant_done but exactly one error, which carries
\* the response's status, and has released the flag.
C9_UpstreamUnavailable ==
    \A t \in TaskIds :
        /\ tasks[t].pc = "errtext" =>
              /\ tasks[t].status \notin 200..299 \/ tasks[t].stream = 0
              /\ EventsOf(t) = SessionEvents(t, <<>>, <<>>)
        /\ (Started(t) /\ tasks[t].pc # "fetch"
              /\ (tasks[t].status \notin 200..299 \/ tasks[t].stream = 0)) =>
              tasks[t].pc \in {"errtext", "done"}
        /\ tasks[t].exit \in {"http", "nobody"} =>
              /\ Len(EventsOf(t)) = 3
              /\ EventsOf(t)[3].type = "error"
              /\ EventsOf(t)[3].status = tasks[t].status
              /\ tasks[t].status # 0
              /\ EventsOf(t) = SessionEvents(t, <<>>, <<EventsOf(t)[3]>>)
              /\ tasks[t].clears = 1
              /\ generating => \E u \in TaskIds : u # t /\ Active(u)

\* one session met an error status, the other a 2xx response without a body
C9_Witness ==
    \E t, u \in TaskIds :
        /\ tasks[t].exit = "http" /\ tasks[t].status = 500
        /\ tasks[u].exit = "nobody" /\ tasks[u].status = 204
        /\ ~generating

\* the shape of a started session's events so far
C10_Shape(t) ==
    LET E == EventsOf(t)
        terminals == {i \in 1..Len(E) : E[i].type \in {"assistant_done", "error"}}
    IN /\ Len(E) >= 2
       /\ \A i \in 3..Len(E) : i \notin terminals => E[i].type = "assistant_delta"
       /\ Active(t) => terminals = {}
       /\ Ended(t) =>
             /\ terminals = {Len(E)}
             /\ E[Len(E)].type = "assistant_done" <=> tasks[t].exit \in {"end", "sentinel"}
             /\ E[Len(E)].type = "error" <=> tasks[t].exit \in {"neterr", "http", "nobody", "readerr"}

\* C10: every session that ends broadcasts exactly one terminal event,
\* assistant_done or error and not both, after all of its assistant_delta
\* events; nothing that was broadcast or delivered is taken back afterwards.
C10_OneTerminal ==
    /\ [](\A t \in TaskIds : Started(t) => C10_Shape(t))
    /\ [][/\ IsPrefix(log, log')
          /\ \A c \in Conns : IsPrefix(inbox[c], inbox'[c])]_vars

\* a read error after a delta: the delta stays, the terminal event is the error
C10_Witness ==
    \E t \in TaskIds :
        /\ tasks[t].exit = "readerr" /\ Len(DeltasOf(t)) = 1
        /\ EventsOf(t)[Len(EventsOf(t))] = TransportErrorEvent
        /\ \E c \in Conns : Count(inbox[c], DeltasOf(t)[1]) = 1 /\ Count(inbox[c], TransportErrorEvent) = 1

\* ------------------------------------------------------------- liveness
\* The upstream request responds: the fetch settles, and so does the read of
\* an error response's text.
UpstreamResponds ==
    \E t \in TaskIds :
        \/ FetchRejects(t)
        \/ \E resp \in Responses : FetchResolves(t, resp)
        \/ ResponseFails(t)

\* The response's stream ends or fails: a read delivers end-of-data or rejects.
\* (The sentinel, when the stream yields it, ends the session before that.)
StreamEnds ==
    \E t \in TaskIds :
        \/ ReadDone(t)
        \/ ReadFails(t)

\* The room with an upstream that always answers and whose streams always
\* end, fail or yield the sentinel.
InitLive == InitRoom /\ Elsewhere /\ menu = {1, 2} /\ quota = MaxMsgs
SpecLive ==
    /\ InitLive
    /\ [][Next]_vars
    /\ WF_vars(UpstreamResponds)
    /\ WF_vars(StreamEnds)

\* the terminal event of task t is in the log
TerminalBroadcast(t) ==
    \E i \in IndexesOf(t) : log[i].ev.type \in {"assistant_done", "error"} /\ log[i].ev # BusyError

\* C11: liveness.  With an upstream that eventually responds and a stream
\* that eventually ends, fails or yields the sentinel, every started session
\* eventually broadcasts its terminal event and ends, and the generating flag
\* becomes false again: again and again the room is in a state where every
\* session started so far has ended with its terminal event broadcast and
\* the flag is false (a session that has ended stays ended).
C11_EventuallyTerminal ==
    []<>(/\ \A t \in TaskIds : Started(t) => (Ended(t) /\ TerminalBroadcast(t))
         /\ ~generating)

\* a session ran through a stream to its end and the flag was released
C11_Witness ==
    \E t \in TaskIds :
        /\ Ended(t) /\ tasks[t].exit = "end" /\ TerminalBroadcast(t)
        /\ Len(DeltasOf(t)) > 0
        /\ ~generating

\* ------------------------------------------------------------- broadcast
\* the events emitted while c was in the membership set, in emission order
FeedOf(c) ==
    LET sel == SelectSeq(log, LAMBDA e : c \in e.to)
    IN [i \in 1..Len(sel) |-> sel[i].ev]

\* the emissions of a session whose membership set held a socket that had
\* closed and was not yet removed: the send to it threw
FailedSends(t) ==
    {i \in IndexesOf(t) : \E c \in log[i].to : HasClosed(c) /\ Len(inbox[c]) < Len(FeedOf(c))}

\* C12: broadcast completeness.  Every connection that is still open has
\* received every event emitted while it was in the membership set, in
\* emission order, whatever sends to other members failed; a closed one
\* received them up to its closing.  A send that throws neither raises out
\* of the handler nor aborts the session: the session goes on to the exit
\* its upstream decides, reading the stream to its end.
C12_BroadcastComplete ==
    /\ \A c \in Conns :
          /\ ready[c] = "open" => inbox[c] = FeedOf(c)
          /\ HasClosed(c) => IsPrefix(inbox[c], FeedOf(c))
          /\ ready[c] = "none" => inbox[c] = <<>> /\ FeedOf(c) = <<>>
    /\ \A t \in TaskIds :
          FailedSends(t) # {} =>
             /\ Started(t) => (Active(t) \/ Ended(t))
             /\ Ended(t) => tasks[t].exit \in {"neterr", "http", "nobody", "readerr", "end", "sentinel"}
             /\ tasks[t].exit = "end" => Remaining(t) = 0
    /\ escaped => nmsg > Len(tasks)

\* the send of a delta to a closed socket failed; the open socket after it
\* in the set got the delta and the assistant_done that followed
C12_Witness ==
    \E t \in TaskIds : \E c, d \in Conns : \E i \in FailedSends(t) :
        /\ c < d /\ {c, d} \subseteq log[i].to
        /\ ready[c] = "closed" /\ ready[d] = "open"
        /\ log[i].ev.type = "assistant_delta"
        /\ Count(inbox[c], log[i].ev) = 0 /\ Count(inbox[d], log[i].ev) = 1
        /\ tasks[t].exit = "sentinel"
        /\ Count(inbox[d], DoneEvent(tasks[t].aid)) = 1

\* ------------------------------------------------------------ total order
\* what connection c received by broadcast (the reply to its own unparseable
\* payload is sent to it alone)
BroadcastsIn(c) == SelectSeq(inbox[c], LAMBDA e : e # InvalidJsonError)

\* the events emitted while both c and d were in the membership set
Shared(c, d) ==
    LET sel == SelectSeq(log, LAMBDA e : {c, d} \subseteq e.to)
    IN [i \in 1..Len(sel) |-> sel[i].ev]

IsSuffix(a, b) == Len(a) <= Len(b) /\ SubSeq(b, Len(b) - Len(a) + 1, Len(b)) = a

\* C13: one total order.  Any two connections with open sockets have both
\* received every event emitted while both were in the membership set, and
\* in the same order, the order of emission: that sequence is the tail of
\* what each of them received by broadcast.
C13_SameOrder ==
    \A c, d \in Conns :
        (c # d /\ ready[c] = "open" /\ ready[d] = "open") =>
            /\ IsSuffix(Shared(c, d), BroadcastsIn(c))
            /\ IsSuffix(Shared(c, d), BroadcastsIn(d))

\* a second user's message_added and its busy error fell between two deltas
\* of a running session, and both connections saw the four in that order
C13_Witness ==
    \E c, d \in Conns : \E t, u \in TaskIds :
        /\ c # d /\ ready[c] = "open" /\ ready[d] = "open"
        /\ tasks[t].conn = c /\ tasks[u].conn = d /\ tasks[u].busy
        /\ tasks[u].id # tasks[t].id
        /\ \E i \in 1..(Len(Shared(c, d)) - 3) :
              SubSeq(Shared(c, d), i, i + 3)
                 = <<DeltaEvent(tasks[t].aid, "Pre"), UserAdded(tasks[u].id, tasks[u].text),
                     BusyError, DeltaEvent(tasks[t].aid, "heat ")>>
        /\ Len(BroadcastsIn(c)) >= 6 /\ Len(BroadcastsIn(d)) >= 4

\* ------------------------------------------------------- close in mid-stream
\* a socket that was a member when session t began has closed
LostMember(t) == \E c \in log[tasks[t].at].to : HasClosed(c)

\* connection d, still open, has received every event session t emitted
\* while d was in the membership set, at its place in the emission order
ReceivedAll(t, d) ==
    LET idx == SelectSeq([i \in 1..Len(log) |-> i], LAMBDA i : d \in log[i].to)
    IN /\ Len(inbox[d]) = Len(idx)
       /\ \A k \in 1..Len(idx) : log[idx[k]].task = t => inbox[d][k] = log[idx[k]].ev

\* C14: closing a connection does not cancel a generation.  A step that
\* closes or removes a socket changes neither the sessions nor the flag nor
\* anything sent; a session one of whose members has closed, its sender or
\* the room's last connection included, still runs to an exit decided by
\* its upstream, every open connection receives what it emits while that
\* connection is a member, its terminal event is broadcast and it clears
\* the flag once.
C14_CloseDoesNotCancel ==
    /\ [](\A t \in TaskIds :
            (Started(t) /\ LostMember(t)) =>
               /\ Active(t) \/ Ended(t)
               /\ Active(t) => generating /\ tasks[t].clears = 0
               /\ Ended(t) =>
                     /\ tasks[t].exit \in {"neterr", "http", "nobody", "readerr", "end", "sentinel"}
                     /\ TerminalBroadcast(t)
                     /\ tasks[t].clears = 1
               /\ \A d \in Conns : ready[d] = "open" => ReceivedAll(t, d))
    /\ [][(sockets' # sockets \/ ready' # ready) =>
             (tasks' = tasks /\ generating' = generating /\ log' = log /\ inbox' = inbox)]_vars

\* the sender, the room's only connection, closed and was removed while its
\* session streamed; the session ended by the sentinel with nobody in the
\* room, and a connection accepted later started the next session
C14_Witness ==
    \E t, u \in TaskIds : \E i \in IndexesOf(t) :
        /\ t < u /\ tasks[t].exit = "sentinel" /\ Started(u)
        /\ log[tasks[t].at].to = {tasks[t].conn}
        /\ ready[tasks[t].conn] = "gone"
        /\ log[i].ev.type = "assistant_delta" /\ log[i].to = {}
        /\ tasks[u].conn # tasks[t].conn
        /\ tasks[u].conn \notin log[tasks[t].at].to

\* the sender closed while its session streamed; the other member received
\* the delta and the assistant_done emitted after that
C14_WitnessOthers ==
    \E t \in TaskIds : \E d \in Conns : \E i \in IndexesOf(t) :
        /\ tasks[t].exit = "sentinel"
        /\ d # tasks[t].conn /\ ready[d] = "open" /\ ready[tasks[t].conn] = "gone"
        /\ log[tasks[t].at].to = {d, tasks[t].conn}
        /\ log[i].ev.type = "assistant_delta" /\ log[i].to = {d}
        /\ Count(inbox[d], log[i].ev) = 1
        /\ Count(inbox[d], DoneEvent(tasks[t].aid)) = 1

\* --------------------------------------------------------------- unregister
\* C15: once the close event of a connection has been dispatched the
\* connection is not in the membership set, is never in it again, and no
\* later broadcast sends to it; a removal takes out the closed connection
\* alone and leaves the flag as it was; removing a connection that is not in
\* the set leaves the set as it is, and removing twice is removing once.
C15_Unregistered ==
    /\ [](\A c \in Conns :
            /\ ready[c] = "gone" => c \notin sockets
            /\ c \notin sockets => Unregister(sockets, c) = sockets
            /\ Unregister(Unregister(sockets, c), c) = Unregister(sockets, c))
    /\ [][\A c \in Conns :
            /\ ready[c] = "gone" =>
                  /\ ready'[c] = "gone"
                  /\ inbox'[c] = inbox[c]
                  /\ \A i \in (Len(log) + 1)..Len(log') : c \notin log'[i].to
            /\ (c \in sockets /\ c \notin sockets') =>
                  /\ ready[c] = "closed"
                  /\ sockets' = sockets \ {c}
                  /\ generating' = generating]_vars

\* the close event of c was dispatched during a session, and a delta was
\* broadcast afterwards to the member that stayed and not to c
C15_Witness ==
    \E c, d \in Conns : \E i, j \in 1..Len(log) :
        /\ ready[c] = "gone" /\ ready[d] = "open"
        /\ i < j /\ log[i].task = log[j].task
        /\ log[i].to = {c, d} /\ log[j].to = {d}
        /\ log[j].ev.type = "assistant_delta"
        /\ Count(inbox[c], log[j].ev) = 0 /\ Count(inbox[d], log[j].ev) = 1

\* ------------------------------------------------------------ failed sends
\* C16 as stated: a connection to which a send failed during a broadcast is
\* removed from the membership set by that broadcast, so every connection
\* in the set has received everything emitted while it was in the set.
C16_RemovedOnFailedSend ==
    \A c \in sockets : inbox[c] = FeedOf(c)

\* ------------------------------------------------------------- validation
\* the text is empty after trimming
IsBlankText(text) == text \in {"", " ", "  "}

\* C17 as stated: a user_message whose text is empty after trimming gets an
\* error event and starts nothing: no session, no assistant identifier, no
\* upstream request.
C17_BlankRejected ==
    \A t \in TaskIds :
        IsBlankText(tasks[t].text) =>
            /\ ~Started(t)
            /\ tasks[t].reqs = 0
            /\ \E i \in IndexesOf(t) : log[i].ev.type = "error"

\* the reply to connection c's unparseable payload, as the history records it
InvalidJsonReply(c) == [ev |-> InvalidJsonError, task |-> 0, to |-> {c}]

\* C18: an unparseable payload from a connection whose socket is open yields
\* exactly one error event, sent to that connection and to no other, and
\* changes nothing else: not the membership set, not the flag, no session,
\* no identifier drawn, the sender stays registered; a user_message the
\* sender sends afterwards is handled as any other (announced to the room,
\* then started or rejected as busy).
C18_InvalidJsonToSender ==
    /\ [](\A t \in TaskIds :
            (\E j \in 1..(tasks[t].at - 1) : log[j] = InvalidJsonReply(tasks[t].conn)) =>
                /\ log[tasks[t].at].ev = UserAdded(tasks[t].id, tasks[t].text)
                /\ tasks[t].conn \in log[tasks[t].at].to
                /\ tasks[t].busy => ~Started(t) /\ log[tasks[t].at + 1].ev = BusyError
                /\ ~tasks[t].busy =>
                      Started(t) /\ log[tasks[t].at + 1].ev = AssistantAdded(tasks[t].aid))
    /\ [][(Len(log') > Len(log) /\ log'[Len(log')].task = 0) =>
             \E c \in Conns :
                /\ log' = Append(log, InvalidJsonReply(c))
                /\ inbox'[c] = Append(inbox[c], InvalidJsonError)
                /\ \A d \in Conns \ {c} : inbox'[d] = inbox[d]
                /\ c \in sockets'
                /\ UNCHANGED <<sockets, generating, ready, tasks, uuid, escaped>>]_vars

\* a connection got the reply to its unparseable payload, the member that
\* was accepted before it and is still open got nothing, and the sender's
\* next user_message started a session
C18_Witness ==
    \E t \in TaskIds : \E d \in Conns :
        /\ log[1] = InvalidJsonReply(tasks[t].conn)
        /\ inbox[tasks[t].conn][1] = InvalidJsonError
        /\ Started(t) /\ tasks[t].at = 2
        /\ d < tasks[t].conn /\ ready[d] = "open"
        /\ d \notin log[1].to /\ d \in log[2].to
        /\ Count(inbox[d], InvalidJsonError) = 0
        /\ Len(inbox[d]) >= 2

\* the payloads handled so far that were not handled as a user_message
NotUserMessages == nmsg - Len(tasks)

\* the errors sent so far to a sender alone
SenderErrors == {i \in 1..Len(log) : log[i].task = 0 /\ log[i].ev.type = "error"}

\* C19 as stated: a payload that parses as JSON but is no recognized client
\* event, the value null included, yields an error event to its sender
\* only; so, as long as no socket has closed, every payload that was not
\* handled as a user_message has been answered by one error to its sender
\* (an unparseable payload is answered so too).
C19_UnrecognizedRejected ==
    (\A c \in Conns : ~HasClosed(c)) => NotUserMessages = Cardinality(SenderErrors)

\* C20 as stated: no exception leaves onMessage, whatever the payload and
\* whatever the state of the sender's socket.
C20_NothingEscapes == ~escaped

\* ------------------------------------------------------- after a session
\* every session begun before task u had ended when u was handled
QuietAt(u) ==
    \A t \in 1..(u - 1) :
        Started(t) => (Ended(t) /\ \A i \in IndexesOf(t) : i < tasks[u].at)

\* C22: the room stays usable after a session.  A user_message handled when
\* every earlier session has ended, with assistant_done or with an error,
\* is not rejected as busy: it starts a session, under an assistant
\* identifier no earlier session had.
C22_UsableAfterEnd ==
    \A u \in TaskIds :
        QuietAt(u) =>
            /\ ~tasks[u].busy
            /\ Started(u)
            /\ \E i \in IndexesOf(u) : log[i].ev = AssistantAdded(tasks[u].aid)
            /\ \A i \in IndexesOf(u) : log[i].ev # BusyError
            /\ \A t \in 1..(u - 1) : tasks[t].aid # tasks[u].aid

\* a session ended with an error; the next user_message, from the other
\* connection, started a session that ended with assistant_done
C22_Witness ==
    \E t, u \in TaskIds :
        /\ t < u /\ QuietAt(u)
        /\ tasks[t].exit \in {"neterr", "http", "nobody", "readerr"}
        /\ tasks[u].conn # tasks[t].conn
        /\ tasks[u].exit \in {"end", "sentinel"}
        /\ tasks[u].aid # tasks[t].aid /\ tasks[u].aid # "-"

\* ------------------------------------------------------- chunk boundaries
\* the loop's result had the first n characters of stream s come in one read
InOneRead(s, n) == OnChunk(<<>>, SubSeq(StreamText(s), 1, n))

DeltaTexts(t) == [i \in 1..Len(DeltasOf(t)) |-> DeltasOf(t)[i].text]

\* C24: chunk-boundary independence.  However the reads cut the stream,
\* inside a data line, inside a JSON payload or between the two newlines of
\* a delimiter, a session that has read the first n characters has
\* broadcast the deltas, and holds the buffer, it would have had those n
\* characters come in one read; a session ended by the sentinel has
\* broadcast the deltas of the whole stream read at once.
C24_ChunkIndependent ==
    \A t \in TaskIds :
        tasks[t].stream # 0 =>
            LET s == tasks[t].stream
                one == InOneRead(s, tasks[t].pos)
                all == InOneRead(s, Len(StreamText(s)))
            IN /\ (tasks[t].pc = "read" \/ tasks[t].exit \in {"end", "readerr"}) =>
                     /\ ~one.ret
                     /\ DeltaTexts(t) = one.out
                     /\ tasks[t].buffer = one.buffer
               /\ tasks[t].exit = "end" => DeltaTexts(t) = all.out /\ ~all.ret
               /\ tasks[t].exit = "sentinel" => DeltaTexts(t) = all.out /\ all.ret

\* a read ended between the two newlines of the second delimiter of the
\* spec's example stream, after one delta
C24_Witness ==
    \E t \in TaskIds :
        LET text == StreamText(tasks[t].stream)
            b == tasks[t].buffer
        IN /\ tasks[t].stream = 3 /\ tasks[t].pc = "read"
           /\ DeltaTexts(t) = <<"Pre">>
           /\ Len(b) > 1 /\ b[Len(b)] = "NL" /\ b[Len(b) - 1] # "NL"
           /\ text[tasks[t].pos + 1] = "NL"

\* a read ended inside a JSON payload
C24_WitnessPayload ==
    \E t \in TaskIds :
        /\ tasks[t].stream = 3 /\ tasks[t].pc = "read"
        /\ tasks[t].buffer = <<"data:", "{">>
        /\ DeltaTexts(t) = <<"Pre", "heat ">>

\* a read ended inside a data line, right after its prefix
C24_WitnessLine ==
    \E t \in TaskIds :
        /\ tasks[t].stream = 3 /\ tasks[t].pc = "read"
        /\ tasks[t].buffer = <<"data:">>
        /\ DeltaTexts(t) = <<"Pre">>

\* ---------------------------------------------------------- corrupt lines
\* the lines of stream s that carry no fragment: a payload that is not JSON,
\* a line without the data: prefix, a data line with an empty payload
CorruptLines(s) ==
    {i \in 1..Len(ClosedLines(s)) : ClosedLines(s)[i].k \in {"bad", "comment", "blank"}}

\* C25: stream corruption does not escalate.  In a stream carrying a payload
\* that is not JSON, a line without the data: prefix and a data line with an
\* empty payload, none of them produces an event or an error or ends the
\* session: the deltas broadcast are those of the well-formed lines, in
\* order, the lines after the corrupt ones included, and the only error a
\* session of such a stream can broadcast is that of a failed read.
C25_CorruptionSkipped ==
    \A t \in TaskIds :
        (tasks[t].stream # 0 /\ CorruptLines(tasks[t].stream) # {}) =>
            LET F == Yielded(tasks[t].stream)
                E == EventsOf(t)
            IN /\ IsPrefix(DeltaTexts(t), F)
               /\ Len(E) <= Len(F) + 3
               /\ (\E i \in 1..Len(E) : E[i].type = "error") => tasks[t].exit = "readerr"
               /\ tasks[t].exit \in {"end", "sentinel"} =>
                     /\ DeltaTexts(t) = F
                     /\ E[Len(E)] = DoneEvent(tasks[t].aid)
                     /\ Len(E) = Len(F) + 3

\* the stream whose second block holds a comment, a truncated payload and
\* an empty data line before a fragment: that fragment and the one of the
\* next block were broadcast
C25_Witness ==
    \E t \in TaskIds :
        /\ tasks[t].stream = 4 /\ tasks[t].exit = "end"
        /\ Cardinality(CorruptLines(4)) = 3
        /\ \A i \in CorruptLines(4) : \E j \in (i + 1)..Len(ClosedLines(4)) : ClosedLines(4)[j] = Frag("Pre")
        /\ DeltaTexts(t) = <<"Pre", "heat ">>

\* --------------------------------------------------------- identifiers
\* the positions of the log that hold a message_added
Additions == {i \in 1..Len(log) : log[i].ev.type = "message_added"}

\* C26 as stated: no two message_added events broadcast in the room carry
\* the same identifier, whatever identifiers the clients supply.
C26_UniqueIds ==
    \A i, j \in Additions : i # j => log[i].ev.id # log[j].ev.id

\* --------------------------------------------------------- end of stream
\* every line the upstream wrote, the lines of an unterminated last block
\* included
AllLines(s) == Flatten(Streams[s].blocks)

\* C28 as stated: a session that read its stream to end-of-data has
\* broadcast one assistant_delta for every non-empty fragment the upstream
\* delivered before any sentinel, the fragments of a last block that no
\* blank line follows included.
C28_NoFragmentLost ==
    \A t \in TaskIds :
        tasks[t].exit = "end" =>
            DeltaTexts(t) = FragmentsOf(BeforeSentinel(AllLines(tasks[t].stream)))

\* --------------------------------------------------------------- join
\* C21: a join event changes nothing.  The step that handles it leaves the
\* membership set, the flag, the sockets, every connection's received
\* events, the emission history, the sessions (and with them the upstream
\* requests issued) and the identifiers drawn as they were.
C21_JoinChangesNothing ==
    [][joins' # joins =>
          /\ joins' = joins + 1
          /\ UNCHANGED <<sockets, generating, ready, tasks, uuid, inbox, log, nmsg, escaped, http>>]_vars

\* joins were handled while a session was streaming; a connection accepted
\* after the session began is registered and has received nothing of what
\* was emitted before
C21_Witness ==
    /\ joins = MaxJoins
    /\ \E t \in TaskIds : \E c \in sockets :
          /\ Active(t) /\ Len(DeltasOf(t)) > 0
          /\ ready[c] = "open"
          /\ c \notin log[tasks[t].at].to
          /\ inbox[c] = <<>>

\* ------------------------------------------------------------- fetch
\* C30: a request that asks for no websocket upgrade is answered 426 and
\* changes nothing in the room; a request answered 101 asked for the upgrade
\* and added exactly one connection, new to the room, leaving the flag and
\* the sessions alone; a connection is in the membership set before any of
\* its messages is handled: the sender of every user_message was in the set
\* its message was broadcast to, and a connection not yet accepted has sent
\* and received nothing.
C30_UpgradeOnly ==
    /\ [](/\ http.status = 426 => http.upgrade # "websocket"
          /\ http.status = 101 => http.upgrade = "websocket"
          /\ \A t \in TaskIds : tasks[t].conn \in log[tasks[t].at].to
          /\ \A c \in Conns :
                ready[c] = "none" =>
                   /\ c \notin sockets
                   /\ inbox[c] = <<>>
                   /\ \A t \in TaskIds : tasks[t].conn # c
                   /\ \A i \in 1..Len(log) : c \notin log[i].to)
    /\ [][/\ (http' # http /\ http'.upgrade # "websocket") =>
                /\ http'.status = 426
                /\ UNCHANGED <<sockets, generating, ready, tasks, uuid, inbox, log, nmsg, escaped>>
          /\ (http' # http /\ http'.upgrade = "websocket") => http'.status = 101
          /\ (sockets' \ sockets # {}) =>
                /\ \E c \in Conns : ready[c] = "none" /\ sockets' = sockets \cup {c}
                /\ http' = [upgrade |-> "websocket", status |-> 101]
                /\ UNCHANGED <<generating, tasks, uuid, inbox, log, nmsg>>]_vars

\* a request without the Upgrade header arrived while a session was
\* streaming to the room's one connection: nothing was registered
C30_Witness ==
    /\ http = [upgrade |-> "null", status |-> 426]
    /\ sockets = {1} /\ ready[2] = "none"
    /\ \E t \in TaskIds : Active(t) /\ Len(DeltasOf(t)) > 0

\* ------------------------------------------------------ recipe endpoint
\* C27: a request whose body is not JSON, holds no prompt string, or holds a
\* prompt shorter than 8 or longer than 400 is answered 400 and issues no
\* upstream request; every other request issues exactly one upstream
\* request, whatever happens afterwards.
C27_Rejected ==
    \/ recipe.body.kind # "prompt"
    \/ recipe.body.len < 8
    \/ recipe.body.len > 400

C27_WitnessForwarded ==
    /\ recipe.body = Body("prompt", 8)
    /\ recipe.pc = "done" /\ recipe.calls = 1

\* C29: the endpoint answers 200 with a recipe only when the upstream
\* response was ok, its payload held content, the content was JSON and the
\* value had the recipe's shape with at least 3 ingredients, at least 3
\* steps and at most 5 tags; an upstream response that is not ok is answered
\* 502, no content 500, content that is not JSON 500, a schema mismatch
\* 502, and none of them with a recipe.
C29_Good ==
    /\ recipe.got /\ recipe.resp.ok /\ recipe.resp.json
    /\ recipe.resp.content.kind = "json"
    /\ recipe.resp.content.typed
    /\ recipe.resp.content.ingredients >= 3
    /\ recipe.resp.content.steps >= 3
    /\ recipe.resp.content.tags <= 5

C29_RecipeOnlyWhenValid ==
    recipe.pc = "done" =>
        /\ recipe.out = "recipe" <=> recipe.status = 200
        /\ recipe.status = 200 <=> C29_Good
        /\ (recipe.got /\ ~recipe.resp.ok) => recipe.status = 502
        /\ (recipe.got /\ recipe.resp.ok /\ recipe.resp.json) =>
              /\ recipe.resp.content.kind = "none" => recipe.status = 500
              /\ recipe.resp.content.kind = "text" => recipe.status = 500
              /\ (recipe.resp.content.kind = "json" /\ ~C29_Good) => recipe.status = 502

\* a value of the right shape with two steps was answered 502
C29_Witness ==
    /\ recipe.pc = "done" /\ recipe.status = 502 /\ recipe.out = "schema"
    /\ recipe.resp.content = Content("json", TRUE, 5, 3, 2)

\* a value with 3 ingredients, 3 steps and 5 tags was answered with a recipe
C29_WitnessRecipe ==
    /\ recipe.pc = "done" /\ recipe.status = 200 /\ recipe.out = "recipe"
    /\ recipe.resp.content = Content("json", TRUE, 5, 3, 3)

\* --------------------------------------------------------------- rooms
\* C23: rooms are isolated.  Two visitors that asked for the same room name
\* are in the same object and a visitor stays in the object it was routed
\* to; two that asked for different names are in different objects.  Every
\* event a visitor receives stems from a message of a visitor of its own
\* room name; a busy rejection is sent only when the generation in progress
\* was started by a visitor of the sender's own room name, and a message
\* handled while only the other room is generating starts a generation.
C23_SameRoom(v, w) == world.route[v] = world.route[w]

C23_RoomsIsolated ==
    /\ [](/\ \A v, w \in Visitors :
                (world.route[v] # "-" /\ world.route[w] # "-") =>
                    (C23_SameRoom(v, w) <=> world.home[v] = world.home[w])
          /\ \A id \in ObjectIds : \A v \in world.rooms[id].sockets : world.home[v] = id
          /\ \A v \in Visitors : \A i \in 1..Len(world.inbox[v]) :
                LET e == world.inbox[v][i]
                IN /\ C23_SameRoom(e.by, v)
                   /\ e.ev = BusyError => (e.cause # 0 /\ C23_SameRoom(e.cause, e.by))
                   /\ (e.ev.type = "message_added" /\ e.ev.role = "assistant") => e.cause = 0
          /\ \A id \in ObjectIds :
                world.rooms[id].generating =>
                    (world.rooms[id].starter # 0 /\ world.home[world.rooms[id].starter] = id))
    /\ [][\A v \in Visitors :
             world.route[v] # "-" =>
                 (world'.route[v] = world.route[v] /\ world'.home[v] = world.home[v])]_vars

\* both rooms are generating at once: visitor 2 of the pantry began its
\* generation while the kitchen's was in progress, visitor 3 of the kitchen
\* was rejected as busy, and nothing of either room reached the other
C23_Witness ==
    /\ world.route = <<"kitchen", "pantry", "kitchen">>
    /\ world.rooms["id:kitchen"].generating /\ world.rooms["id:kitchen"].starter = 1
    /\ world.rooms["id:pantry"].generating /\ world.rooms["id:pantry"].starter = 2
    /\ \E i \in 1..Len(world.inbox[1]) :
          world.inbox[1][i].ev = BusyError /\ world.inbox[1][i].by = 3
    /\ Len(world.inbox[2]) = 2

\* ------------------------------------------------------- conversation
Ids(conv) == {conv[i].id : i \in 1..Len(conv)}
UniqueIds(conv) == \A i, j \in 1..Len(conv) : conv[i].id = conv[j].id => i = j
Handled(type) == hook'.nrecv # hook.nrecv /\ hook'.last.type = type

\* C31: whatever server events arrive and in whatever order, no two entries
\* of the conversation share an id; a message_added whose id is present
\* replaces that entry where it stands and leaves every other entry and the
\* length alone, and one whose id is new appends one entry at the end.
C31_ConversationIds ==
    /\ [](UniqueIds(hook.conversation))
    /\ [][Handled("message_added") =>
            LET msg == hook'.last
                new == [id |-> msg.id, role |-> msg.role, content |-> msg.text]
            IN IF msg.id \in Ids(hook.conversation)
               THEN /\ Len(hook'.conversation) = Len(hook.conversation)
                    /\ \A i \in 1..Len(hook.conversation) :
                          hook'.conversation[i] =
                              IF hook.conversation[i].id = msg.id THEN new
                              ELSE hook.conversation[i]
               ELSE hook'.conversation = hook.conversation \o <<new>>]_vars

\* the third event was a message_added for the id of the first of two
\* entries: it replaced that entry where it stood
C31_Witness ==
    /\ hook.nrecv = 3
    /\ Len(hook.conversation) = 2
    /\ hook.last.type = "message_added"
    /\ hook.last.id = hook.conversation[1].id
    /\ hook.last.role = "assistant" /\ hook.conversation[2].role = "user"

\* C33: assistant_done and error events leave the conversation as it was;
\* an error event calls onError once, with the event's message; a payload
\* that is not JSON changes neither the conversation nor the status, and
\* calls nothing.
C33_FrameOfEvents ==
    [][/\ (Handled("assistant_done") \/ Handled("error") \/ Handled("malformed")) =>
            /\ hook'.conversation = hook.conversation
            /\ hook'.status = hook.status
            /\ hook'.sent = hook.sent
       /\ Handled("error") => hook'.errors = hook.errors \o <<hook'.last.text>>
       /\ (Handled("assistant_done") \/ Handled("malformed")) => hook'.errors = hook.errors]_vars

\* an error event and then a malformed payload were handled with one entry
\* in the conversation: onError was called once, with the busy message
C33_Witness ==
    /\ hook.nrecv = 3
    /\ hook.last = Malformed
    /\ Len(hook.conversation) = 1
    /\ hook.errors = <<"Assistant is busy; try again in a moment.">>
    /\ hook.status = "ready"

\* ------------------------------------------------------ sendUserMessage
\* C34: a call of sendUserMessage with no current socket, with a current
\* socket that is not open, or with a text that is empty after trimming
\* sends nothing, calls onError once and returns false; any other call sends
\* one user_message on the current socket, with an id no earlier payload
\* had and the trimmed text, calls nothing and returns true.  No call
\* touches the conversation.
C34_Offline ==
    \/ hook.ref = 0
    \/ hook.socks[hook.ref].state # "open"
    \/ Trim(hook'.arg) = <<>>

C34_SendOrRefuse ==
    [][hook'.calls # hook.calls =>
          /\ hook'.conversation = hook.conversation
          /\ hook'.status = hook.status
          /\ IF C34_Offline
             THEN /\ hook'.ret = "false"
                  /\ hook'.sent = hook.sent
                  /\ hook'.errors = hook.errors \o <<"Chat is offline">>
             ELSE /\ hook'.ret = "true"
                  /\ hook'.errors = hook.errors
                  /\ Len(hook'.sent) = Len(hook.sent) + 1
                  /\ SubSeq(hook'.sent, 1, Len(hook.sent)) = hook.sent
                  /\ LET payload == hook'.sent[Len(hook'.sent)]
                     IN /\ payload.sock = hook.ref
                        /\ payload.type = "user_message"
                        /\ payload.text = Trim(hook'.arg)
                        /\ \A i \in 1..Len(hook.sent) : hook.sent[i].id # payload.id]_vars

\* a text between blanks was sent trimmed on the open socket, then a blank
\* text was refused; the conversation is still empty
C34_Witness ==
    /\ hook.calls = 2
    /\ hook.ret = "false" /\ hook.arg = <<"SP">>
    /\ hook.ref # 0 /\ hook.socks[hook.ref].state = "open"
    /\ Len(hook.sent) = 1 /\ hook.sent[1].text = <<"h", "i">>
    /\ hook.errors = <<"Chat is offline">>
    /\ hook.conversation = <<>>

\* ------------------------------------------------------------- status
\* the socket s has been replaced: a later socket exists, or the effect run
\* that created it has been cleaned up
Replaced(s) == s < Len(hook.socks) \/ hook.live # s
Fires(s, event) ==
    /\ s \in 1..Len(hook.socks)
    /\ event \notin hook.socks[s].fired
    /\ event \in hook'.socks[s].fired

\* status is ready only if the current socket has fired open and neither
\* close nor error
C35_ReadyMeansOpen ==
    hook.status = "ready" =>
        /\ hook.ref # 0
        /\ hook.socks[hook.ref].fired = {"open"}

\* each socket sends one join, on its open event
C35_OneJoin ==
    \A s \in 1..Len(hook.socks) :
        hook.socks[s].joins = IF "open" \in hook.socks[s].fired THEN 1 ELSE 0

\* socketRef never refers to a replaced socket
C35_RefIsCurrent == hook.ref # 0 => ~Replaced(hook.ref)

\* close and error events of a replaced socket change neither the status
\* nor the onError calls
C35_StaleEventsIgnored ==
    \A s \in 1..MaxSockets :
        ((Fires(s, "close") \/ Fires(s, "error")) /\ Replaced(s)) =>
            (hook'.status = hook.status /\ hook'.errors = hook.errors)

\* C35: status is ready only if the current socket has fired open and has
\* fired neither close nor error since; each socket sends exactly one join,
\* and only on its open event; after reconnect or a room change the close
\* and error events of the replaced socket change neither the status nor
\* the onError calls, and socketRef never refers to a replaced socket.
C35_ConnectionStatus ==
    /\ [](C35_ReadyMeansOpen /\ C35_OneJoin /\ C35_RefIsCurrent)
    /\ [][C35_StaleEventsIgnored]_vars

\* what holds of the status while the hook has a room
C35_InRoom ==
    /\ [](hook.room # "null" => C35_ReadyMeansOpen)
    /\ [](C35_OneJoin /\ C35_RefIsCurrent)
    /\ [][C35_StaleEventsIgnored]_vars

\* the first socket was ready and was replaced by reconnect; its close event
\* has fired and the status is that of the second socket
C35_InRoomWitness ==
    /\ Len(hook.socks) = 2
    /\ hook.socks[1].fired = {"open", "close"} /\ hook.socks[1].didUnmount
    /\ hook.socks[2].fired = {"open"}
    /\ hook.status = "ready" /\ hook.ref = 2

\* ---------------------------------------------------------------- view
RECURSIVE Concat(_)
Concat(texts) == IF Len(texts) = 0 THEN "" ELSE Head(texts) \o Concat(Tail(texts))

\* the client was registered in the room when task t's session began, is
\* still connected, and has handled everything the relay sent to it
C32_ConnectedThroughout(t) ==
    /\ Started(t)
    /\ 1 \in log[tasks[t].at].to
    /\ ready[1] = "open"
    /\ Opened(1)
    /\ hook.nrecv = Len(inbox[1])

C32_ShowsDeltas(t) ==
    \E i \in 1..Len(hook.conversation) :
        /\ hook.conversation[i].id = tasks[t].aid
        /\ hook.conversation[i].role = "assistant"
        /\ hook.conversation[i].content = Concat(DeltaTexts(t))

\* no entry with the assistant identifier shows anything else
C32_ShowsNothingElse(t) ==
    \A i \in 1..Len(hook.conversation) :
        hook.conversation[i].id = tasks[t].aid =>
            hook.conversation[i].content = Concat(DeltaTexts(t))

C32_AppendsUnknown ==
    (Handled("assistant_delta") /\ hook'.last.id \notin Ids(hook.conversation)) =>
        hook'.conversation =
            hook.conversation \o <<[id |-> hook'.last.id, role |-> "assistant",
                                    content |-> hook'.last.text]>>

\* C32: for a client connected for a whole generation session, the content
\* of the conversation entry with the assistant identifier is the
\* concatenation, in broadcast order, of the texts of the session's
\* assistant_delta events, once the client has handled them; an
\* assistant_delta for an id not in the conversation appends an assistant
\* entry whose content is that delta's text.
C32_ViewRefinesStream ==
    /\ [](\A t \in TaskIds : C32_ConnectedThroughout(t) => C32_ShowsNothingElse(t))
    /\ [][C32_AppendsUnknown]_vars

\* the same, for a client that has not called clearConversation
C32_UnlessCleared ==
    /\ [](\A t \in TaskIds :
            (C32_ConnectedThroughout(t) /\ ~hook.cleared) => C32_ShowsDeltas(t))
    /\ [][C32_AppendsUnknown]_vars

\* the session is over, the client has handled both deltas and shows
\* their concatenation
C32_UnlessClearedWitness ==
    \E t \in TaskIds :
        /\ C32_ConnectedThroughout(t) /\ ~hook.cleared
        /\ tasks[t].pc = "done"
        /\ Len(DeltasOf(t)) = 2
        /\ C32_ShowsDeltas(t)

\* ------------------------------------------------------------ the App
Did(name) == app'.nops # app.nops /\ app'.op.name = name

\* C36: whatever goToStep(-1) and goToStep(+1) calls are made, the step
\* index of the selected recipe is between 0 and steps.length - 1 once the
\* selection has settled; every call leaves it in that range, a step back
\* at 0 and a step forward at the last index leave it where it was, and any
\* other call moves it by one.
C36_Last == SelectedRecipe(app).steps - 1

C36_StepInRange ==
    /\ []((SelectedRecipe(app) # NoPlan /\ ~app.reset) =>
            (app.currentStepIndex >= 0 /\ app.currentStepIndex <= C36_Last))
    /\ [][(Did("step") /\ SelectedRecipe(app) # NoPlan) =>
            /\ app'.currentStepIndex >= 0
            /\ app'.currentStepIndex <= C36_Last
            /\ (app.currentStepIndex = 0 /\ app'.op.delta = -1) => app'.currentStepIndex = 0
            /\ (app.currentStepIndex = C36_Last /\ app'.op.delta = 1) =>
                  app'.currentStepIndex = C36_Last
            /\ (app.currentStepIndex + app'.op.delta \in 0..C36_Last) =>
                  app'.currentStepIndex = app.currentStepIndex + app'.op.delta]_vars

\* a step forward was asked at the last step of a recipe of four steps
C36_Witness ==
    /\ app.op = [name |-> "step", recipeId |-> "r2", delta |-> 1]
    /\ SelectedRecipe(app) = Plan("r2", 4)
    /\ app.currentStepIndex = 3
    /\ app.nops = MaxOps

\* C37: the recipes list has at most one entry per recipe id, the history
\* at most one per recipe id with the recipe tracked last in front, the
\* favorites at most one per recipe id; saving a recipe that is saved leaves
\* the favorites as they were.
C37_OnePer(list) == \A i, j \in 1..Len(list) : list[i].recipeId = list[j].recipeId => i = j

C37_ListsUnique ==
    /\ [](/\ \A i, j \in 1..Len(app.recipes) :
                app.recipes[i].id = app.recipes[j].id => i = j
          /\ C37_OnePer(app.history)
          /\ C37_OnePer(app.favorites))
    /\ [][/\ Did("arrive") =>
                (app'.recipes[1].id = app'.op.recipeId /\ app'.history[1].recipeId = app'.op.recipeId)
          /\ app'.history # app.history =>
                (Len(app'.history) > 0 /\ app'.history[1].recipeId = app'.op.recipeId)
          /\ (app.isSaving /\ ~app'.isSaving) =>
                IF \E i \in 1..Len(app.favorites) : app.favorites[i].recipeId = app.saving
                THEN app'.favorites = app.favorites
                ELSE /\ Len(app'.favorites) = Len(app.favorites) + 1
                     /\ app'.favorites[1].recipeId = app.saving]_vars

\* r1 was generated, saved, generated again with other steps and saved
\* again: one entry for it in each list
C37_Witness ==
    /\ app.op = [name |-> "saved", recipeId |-> "r1", delta |-> 0]
    /\ app.made = 3
    /\ Len(app.recipes) = 1 /\ app.recipes[1] = Plan("r1", 4)
    /\ Len(app.history) = 1 /\ app.history[1].id = "hist-3"
    /\ Len(app.favorites) = 1 /\ app.favorites[1].id = "fav-2"

====
